---------------------------- MODULE Spec2Model ----------------------------
(***************************************************************************)
(* Verification model of the two-level threshold pipeline of ilastik       *)
(* (ilastik/applets/thresholdTwoLevels/opThresholdTwoLevels.py):           *)
(*   - OpAnisotropicGaussianSmoothing: halo / ROI algebra, execute,        *)
(*     dirty propagation                                                   *)
(*   - OpSelectLabels: the memory-ordered execute                          *)
(*   - OpThresholdTwoLevels: channel selection and the composed pipeline   *)
(*   - the block cache wrapped around the pipeline outputs (lazyflow's     *)
(*     OpCompressedCache, modelled from the specification text)            *)
(* Volumes are modelled with small integer extents; a ROI is a record      *)
(* [start, stop] of per-axis index sequences.                              *)
(***************************************************************************)
EXTENDS Integers, Sequences, FiniteSets, TLC

VARIABLES
    \* ---- OpAnisotropicGaussianSmoothing
    smAxisKeys,     \* Input.meta.getAxisKeys(): sequence of axis keys
    smShape,        \* Input.meta.shape (same length as smAxisKeys)
    smSigmas,       \* self._sigmas: [x, y, z] in units of 1/SigmaDen
    smOp,           \* the last operation performed on the smoother
    smRoi,          \* the ROI that operation was called with
    smInputRoi,     \* inputRoi of the last _getInputComputeRois
    smComputeRoi,   \* computeRoi of the last _getInputComputeRois
    smResult,       \* outcome of the last execute: [status, shape, smoothed]
    smDirty,        \* region last marked dirty on Output
    smPending       \* the execute suspended in Input(*inputRoi).wait(), if any

smVars == <<smAxisKeys, smShape, smSigmas, smOp, smRoi, smInputRoi,
            smComputeRoi, smResult, smDirty, smPending>>

VARIABLES
    \* ---- OpSelectLabels.execute (one-dimensional label volumes)
    selPc,          \* position in execute: 0 idle, i at instruction i, Len+1 returned
    selRoi,         \* roi of the running execute
    selUpSmall,     \* what the SmallLabels slot serves over roi
    selUpBig,       \* what the BigLabels slot serves over roi
    selSmallReq,    \* smallLabelsReq: "none", "pending", "finished", "cleaned"
    selBigReq,      \* the BigLabels request: "none", "pending", "finished"
    selSmallLabels, \* local smallLabels (<<>> when unbound)
    selSmallNonZero,\* local smallNonZero (<<>> when unbound)
    selBigLabels,   \* local bigLabels (<<>> when unbound)
    selProd,        \* local prod
    selResult       \* result buffer

selVars == <<selPc, selRoi, selUpSmall, selUpBig, selSmallReq, selBigReq,
             selSmallLabels, selSmallNonZero, selBigLabels, selProd, selResult>>

VARIABLES
    \* ---- OpThresholdTwoLevels: configuration
    tlNumChannels,  \* InputImage.meta.shape[channelAxis]
    tlChannel,      \* Channel.value
    tlLow,          \* LowThreshold.value, in units of 1/ThreshDen
    tlHigh,         \* HighThreshold.value, in units of 1/ThreshDen
    tlMinSize,      \* MinSize.value
    tlMaxSize,      \* MaxSize.value
    tlDrange,       \* _opSmoother.Output.meta.drange: [set, lo, hi]
    tlSlice,        \* index of the channel slice connected to _opSmoother.Input (-1: none)
    tlSetup,        \* outcome of the last setupOutputs: "ok" or "IndexError"
    tlOp,           \* how setupOutputs was called last: "setupOutputs" after
                    \* an input changed, "setupOutputs again" otherwise
    tlLowFn,        \* thresholdValue bound in _opLowThresholder.Function (-1: unset)
    tlHighFn,       \* thresholdValue bound in _opHighThresholder.Function (-1: unset)
    \* ---- OpThresholdTwoLevels: one read of Output over the whole volume
    tlRead,         \* "idle"; "wait SmallLabels", "wait BigLabels": the
                    \* read waits at line 148, at line 157; "done" or
                    \* "AssertionError": it returned, it raised
    tlCalls,        \* how often Output was read: 0, 1, or 2 for a later read
    tlSmoothed,     \* what _opSmoother.Output served for the small labels
    tlSmoothedBig,  \* what _opSmoother.Output served for the big labels
    tlBigRegions,   \* _opLowThresholder.Output
    tlSmallRegions, \* _opHighThresholder.Output
    tlBigLabels,    \* _opLowLabeler.Output
    tlSmallLabels,  \* _opHighLabelSizeFilter.Output
    tlHighLabels,   \* _opHighLabeler.Output
    tlOutput        \* _opSelectLabels.Output

tlConfVars == <<tlNumChannels, tlChannel, tlLow, tlHigh, tlMinSize, tlMaxSize,
                tlDrange, tlSlice, tlSetup, tlOp, tlLowFn, tlHighFn>>
tlReadVars == <<tlRead, tlCalls, tlSmoothed, tlSmoothedBig, tlBigRegions, tlSmallRegions,
                tlBigLabels, tlSmallLabels, tlHighLabels, tlOutput>>
tlVars == <<tlConfVars, tlReadVars>>

VARIABLES
    \* ---- the block cache around a pipeline output (one-dimensional)
    ccState,        \* per block: "absent", "materializing", "clean", "dirty"
    ccData,         \* per block: the stored data: "none", "current" (computed
                    \* from the producer's present data) or "stale"
    ccUpstream,     \* the number of changes of the producer's data so far
    ccProdCalls,    \* per block: producer invocations since the last dirty
                    \* notification that covered the block
    ccReader        \* per reader: the state of its read request

ccVars == <<ccState, ccData, ccUpstream, ccProdCalls, ccReader>>

VARIABLES
    \* ---- OpThresholdTwoLevels: reads of its output slots through the wiring
    wrClean,        \* the caches that hold their data
    wrRead,         \* the output slot read last ("none": no read since the
                    \* input changed)
    wrPrev,         \* the output slot read before that
    wrExecuted,     \* the operators whose execute ran for the last read
    wrPending       \* the read in progress, if any

wrVars == <<wrClean, wrRead, wrPrev, wrExecuted, wrPending>>

VARIABLES
    \* ---- OpAnisotropicGaussianSmoothing: configuration and notifications
    suInput,        \* Input.meta: [dtype, axiskeys, shape, drange]
    suSigmas,       \* Sigmas.value: [isDict, keys, q]
    suStored,       \* self._sigmas
    suOutput,       \* Output.meta
    suOp,           \* the last call: "setupOutputs", "setupOutputs again",
                    \* "propagateDirty"
    suStatus,       \* its outcome: "ok" or the assertion that failed
    suSlot,         \* the slot of a propagateDirty call ("none" otherwise)
    suRoi,          \* the roi of a propagateDirty call
    suDirty         \* what the call marked dirty on Output

suVars == <<suInput, suSigmas, suStored, suOutput, suOp, suStatus, suSlot,
            suRoi, suDirty>>

VARIABLES
    \* ---- OpMaskArray (tests/testMaskedArray.py), one-dimensional
    mkData,         \* the value of InputArray
    mkMask,         \* the value of InputMask
    mkVia,          \* the operator whose Output is read: "OpMaskArray" or
                    \* "OpArrayPiper", connected behind it
    mkRoi,          \* the roi of the last read
    mkResult,       \* its result: a masked array [data, mask]
    mkAssembled,    \* the array the results are stored into: [data, mask, filled]
    mkPending,      \* the read in progress: its roi, the wait it is in
                    \* ("line 60", "line 61") and what it obtained so far
    mkStale         \* an input was set while the read in progress, or a read
                    \* whose result is in the array, was under way

mkVars == <<mkData, mkMask, mkVia, mkRoi, mkResult, mkAssembled, mkPending,
            mkStale>>

VARIABLES
    \* ---- OpSelectLabels.propagateDirty (one-dimensional output)
    sdSlot,         \* the slot of the last notification ("none": none yet)
    sdRoi,          \* its roi
    sdStatus,       \* "ok" or the assertion that failed
    sdDirty,        \* what the call marked dirty on Output
    sdStale         \* the pixels of Output that were marked dirty and that the
                    \* consumer has not read again

sdVars == <<sdSlot, sdRoi, sdStatus, sdDirty, sdStale>>

VARIABLES
    \* ---- Metadata of the primary output of OpThresholdTwoLevels
    mdInput,        \* InputImage.meta: [dtype, drange, channels]
    mdBigLabels,    \* _opSelectLabels.BigLabels.meta
    mdSelect,       \* _opSelectLabels.Output.meta
    mdOutput,       \* OpThresholdTwoLevels.Output.meta
    mdProduced,     \* dtype of the array the running read of Output produced
    mdOp            \* "constructed"; once configured: "idle", "small labels"
                    \* and "big labels" (a read waits for that input) or
                    \* "execute" (the read has written its result)

mdVars == <<mdInput, mdBigLabels, mdSelect, mdOutput, mdProduced, mdOp>>

VARIABLES
    \* ---- Parameter changes of OpThresholdTwoLevels
    pcParams,       \* the values on the parameter slots
    pcConf,         \* what setupOutputs left: [setup, slice, lowFn, highFn]
    pcDirty,        \* the inner operators whose Output the last change marked
                    \* dirty, all of it
    pcCache,        \* _opCache: [state, stale], stale when a parameter has
                    \* changed since its data was computed
    pcRead,         \* the running read: [slot, cached, stale, during]
    pcOp            \* "setupOutputs", "setValue", "read", "done" or "idle"

pcVars == <<pcParams, pcConf, pcDirty, pcCache, pcRead, pcOp>>

VARIABLES
    \* ---- OpTrackingBaseDataExport
    exSource,       \* SelectedExportSource.value: [kind, text, obj]
    exPlugin,       \* SelectedPlugin.value
    exExports,      \* how many times the base export has run
    exOp,           \* "constructed", "setValue" or "run_export"
    exRanBase       \* whether the last run_export ran the base export

exVars == <<exSource, exPlugin, exExports, exOp, exRanBase>>

VARIABLES
    \* ---- StackFileSelectionWidget
    wgChecked,      \* the radio buttons that are checked
    wgEnabled,      \* the controls that are enabled
    wgDirectoryEdit,\* the text of directoryEdit: a directory, NoDir when empty
    wgPatternEdit,  \* the text of patternEdit: a pattern, EmptyPattern when empty
    wgFiles,        \* selectedFiles: how many name image files, how many
                    \* HDF5/N5 datasets
    wgCall          \* the handler that runs or ran last: [op, mode, raised,
                    \* warned, applied, outcome, arg, shown]

wgVars == <<wgChecked, wgEnabled, wgDirectoryEdit, wgPatternEdit, wgFiles, wgCall>>

\* What the actions of one operator leave unchanged: the other operators
smOthers == <<selVars, tlVars, ccVars, wrVars, suVars, mkVars, sdVars, mdVars, pcVars, exVars, wgVars>>
selOthers == <<smVars, tlVars, ccVars, wrVars, suVars, mkVars, sdVars, mdVars, pcVars, exVars, wgVars>>
tlOthers == <<smVars, selVars, ccVars, wrVars, suVars, mkVars, sdVars, mdVars, pcVars, exVars, wgVars>>
ccOthers == <<smVars, selVars, tlVars, wrVars, suVars, mkVars, sdVars, mdVars, pcVars, exVars, wgVars>>
wrOthers == <<smVars, selVars, tlVars, ccVars, suVars, mkVars, sdVars, mdVars, pcVars, exVars, wgVars>>
suOthers == <<smVars, selVars, tlVars, ccVars, wrVars, mkVars, sdVars, mdVars, pcVars, exVars, wgVars>>
mkOthers == <<smVars, selVars, tlVars, ccVars, wrVars, suVars, sdVars, mdVars, pcVars, exVars, wgVars>>

sdOthers == <<smVars, selVars, tlVars, ccVars, wrVars, suVars, mkVars, mdVars, pcVars, exVars, wgVars>>
mdOthers == <<smVars, selVars, tlVars, ccVars, wrVars, suVars, mkVars, sdVars, pcVars, exVars, wgVars>>
pcOthers == <<smVars, selVars, tlVars, ccVars, wrVars, suVars, mkVars, sdVars, mdVars, exVars, wgVars>>
exOthers == <<smVars, selVars, tlVars, ccVars, wrVars, suVars, mkVars, sdVars, mdVars, pcVars, wgVars>>
wgOthers == <<smVars, selVars, tlVars, ccVars, wrVars, suVars, mkVars, sdVars, mdVars, pcVars, exVars>>

vars == <<smVars, selVars, tlVars, ccVars, wrVars, suVars, mkVars, sdVars, mdVars, pcVars, exVars, wgVars>>

-----------------------------------------------------------------------------
(* Bounds of the model *)

\* largest extent of a spatial axis of the smoother's input
MaxExtent == 3
\* sigma values are q / SigmaDen for q in 0 .. MaxSigmaQ
SigmaDen == 3
MaxSigmaQ == 2

\* length of the label volumes of the selection operator
VolLen == 3
\* largest label value
MaxLabel == 2

\* largest number of channels of the input image
MaxChannels == 2
\* threshold fractions are t / ThreshDen for t in 0 .. ThreshDen
ThreshDen == 2

\* run_export runs the base export at most MaxExports times
MaxExports == 3

\* a directory holds at most MaxDirFiles files
MaxDirFiles == 2

\* length of the arrays given to OpMaskArray, and their largest value
MkLen == 3
MkMaxValue == 1
\* smoothed values are 0 .. MaxValue, the declared display range is (0, MaxValue)
MaxValue == 2

\* the cached output has NumBlocks blocks of BlockSize pixels
NumBlocks == 2
BlockSize == 2
\* the producer's data changes, and the cache is notified, at most MaxGen times
MaxGen == 1

\* window=2.0 in the call of extendSlice, window_size=2.0 in gaussianSmoothing
Window == 2

-----------------------------------------------------------------------------
(* Generic helpers on sequences and ROIs *)

Max(a, b) == IF a >= b THEN a ELSE b
Min(a, b) == IF a <= b THEN a ELSE b

\* list.index(v): position of the first occurrence of v (1-based)
IndexOf(s, v) == CHOOSE i \in 1..Len(s) : s[i] = v /\ \A j \in 1..(i-1) : s[j] # v

\* list.pop(i)
RemoveAt(s, i) == [j \in 1..(Len(s)-1) |-> IF j < i THEN s[j] ELSE s[j+1]]

\* list.insert(i, v)
InsertAt(s, i, v) ==
    [j \in 1..(Len(s)+1) |-> IF j < i THEN s[j] ELSE IF j = i THEN v ELSE s[j-1]]

\* filter( lambda k: k in 'xyz', axiskeys )
RECURSIVE SpatialKeys(_)
SpatialKeys(keys) ==
    IF keys = <<>> THEN <<>>
    ELSE IF Head(keys) \in {"x", "y", "z"}
         THEN <<Head(keys)>> \o SpatialKeys(Tail(keys))
         ELSE SpatialKeys(Tail(keys))

VecSub(a, b) == [i \in 1..Len(a) |-> a[i] - b[i]]
VecAdd(a, b) == [i \in 1..Len(a) |-> a[i] + b[i]]

\* all(a <= b)
VecLeq(a, b) == \A i \in 1..Len(a) : a[i] <= b[i]

\* ceil(n / d) for n >= 0, d > 0
CeilDiv(n, d) == (n + d - 1) \div d

-----------------------------------------------------------------------------
(* OpAnisotropicGaussianSmoothing *)

NoRoi == [start |-> <<>>, stop |-> <<>>]
\* What a setDirty call marks on Output: everything (slice(None)), or a ROI
DirtyAll == [kind |-> "all", roi |-> NoRoi]
DirtyNone == [kind |-> "none", roi |-> NoRoi]
DirtyRegion(r) == [kind |-> "roi", roi |-> r]

NoResult == [status |-> "none", shape |-> <<>>, smoothed |-> <<>>]

\* Axis layouts of the smoother's input: two spatial axes and the channel axis
AxisLayouts ==
    { <<"x", "y", "c">>, <<"c", "y", "x">>, <<"z", "c", "y">> }

\* The shapes of a layout: the channel slice fed to the smoother has exactly
\* one channel (OpMultiArraySlicer2 along 'c'), the spatial extents vary.
ShapesOf(keys) ==
    { sh \in [1..Len(keys) -> 1..MaxExtent] :
        \A i \in 1..Len(keys) : keys[i] = "c" => sh[i] = 1 }

SigmaValues == 0..MaxSigmaQ
SigmaDicts == [x : SigmaValues, y : SigmaValues, z : SigmaValues]

\* self._sigmas.get(key)
SigmaGet(sigmas, key) ==
    IF key = "x" THEN sigmas.x ELSE IF key = "y" THEN sigmas.y ELSE sigmas.z

\* The index intervals [a, b) with 0 <= a < b <= n
Intervals(n) == { iv \in (0..n) \X (0..n) : iv[1] < iv[2] }

\* All ROIs whose axis i ranges over an interval of extent[i]
RECURSIVE RoisOver(_)
RoisOver(extent) ==
    IF extent = <<>> THEN { NoRoi }
    ELSE { [start |-> <<iv[1]>> \o r.start, stop |-> <<iv[2]>> \o r.stop] :
             iv \in Intervals(Head(extent)), r \in RoisOver(Tail(extent)) }

\* All non-empty ROIs inside a shape
RoisWithin(shape) == RoisOver(shape)

\* ROIs handed to execute, some of which reach one past the input's shape
\* on a spatial axis
RequestRois(axiskeys, shape) ==
    RoisOver([i \in 1..Len(shape) |->
                 IF axiskeys[i] = "c" THEN shape[i] ELSE shape[i] + 1])

\* numpy.ceil(window * sigma), sigma = q / SigmaDen
HaloRadius(q, window) == CeilDiv(window * q, SigmaDen)

\* lazyflow.roi.extendSlice(start, stop, shape, sigma, window)
extendSlice(start, stop, shape, sigma, window) ==
    [ start |-> [i \in 1..Len(start) |->
                    Max(start[i] - HaloRadius(sigma[i], window), 0)],
      stop  |-> [i \in 1..Len(stop) |->
                    Min(stop[i] + HaloRadius(sigma[i], window), shape[i])] ]

\* A slip in the offset: the nominal halo instead of the clipped distance
GetInputComputeRois_NominalOffset(axiskeys, shape, sigmas, roi) ==
    LET ci == IndexOf(axiskeys, "c")
        spatialkeys == SpatialKeys(axiskeys)
        sigma == [i \in 1..Len(spatialkeys) |-> SigmaGet(sigmas, spatialkeys[i])]
        inputSpatialShape == RemoveAt(shape, ci)
        spStart == RemoveAt(roi.start, ci)
        spStop == RemoveAt(roi.stop, ci)
        inputSpatialRoi == extendSlice(spStart, spStop, inputSpatialShape, sigma, Window)
        inputRoiOffset == [i \in 1..Len(spStart) |-> HaloRadius(sigma[i], Window)]
    IN  [ inputRoi |-> [start |-> InsertAt(inputSpatialRoi.start, ci, 0),
                        stop  |-> InsertAt(inputSpatialRoi.stop, ci, 1)],
          computeRoi |-> [start |-> inputRoiOffset,
                          stop  |-> VecSub(VecAdd(inputRoiOffset, spStop), spStart)] ]

\* A slip in the compute ROI: its stop taken in input coordinates
GetInputComputeRois_AbsoluteStop(axiskeys, shape, sigmas, roi) ==
    LET ci == IndexOf(axiskeys, "c")
        spatialkeys == SpatialKeys(axiskeys)
        sigma == [i \in 1..Len(spatialkeys) |-> SigmaGet(sigmas, spatialkeys[i])]
        inputSpatialShape == RemoveAt(shape, ci)
        spStart == RemoveAt(roi.start, ci)
        spStop == RemoveAt(roi.stop, ci)
        inputSpatialRoi == extendSlice(spStart, spStop, inputSpatialShape, sigma, Window)
        inputRoiOffset == VecSub(spStart, inputSpatialRoi.start)
    IN  [ inputRoi |-> [start |-> InsertAt(inputSpatialRoi.start, ci, 0),
                        stop  |-> InsertAt(inputSpatialRoi.stop, ci, 1)],
          computeRoi |-> [start |-> inputRoiOffset,
                          stop  |-> VecAdd(inputRoiOffset, spStop)] ]

\* A slip in the clipping bounds: 'c' is left in the tagged shape
GetInputComputeRois_ShapeWithChannel(axiskeys, shape, sigmas, roi) ==
    LET ci == IndexOf(axiskeys, "c")
        spatialkeys == SpatialKeys(axiskeys)
        sigma == [i \in 1..Len(spatialkeys) |-> SigmaGet(sigmas, spatialkeys[i])]
        inputSpatialShape == shape
        spStart == RemoveAt(roi.start, ci)
        spStop == RemoveAt(roi.stop, ci)
        inputSpatialRoi == extendSlice(spStart, spStop, inputSpatialShape, sigma, Window)
        inputRoiOffset == VecSub(spStart, inputSpatialRoi.start)
    IN  [ inputRoi |-> [start |-> InsertAt(inputSpatialRoi.start, ci, 0),
                        stop  |-> InsertAt(inputSpatialRoi.stop, ci, 1)],
          computeRoi |-> [start |-> inputRoiOffset,
                          stop  |-> VecSub(VecAdd(inputRoiOffset, spStop), spStart)] ]

\* OpAnisotropicGaussianSmoothing._getInputComputeRois(roi)
GetInputComputeRois(axiskeys, shape, sigmas, roi) ==
    LET ci == IndexOf(axiskeys, "c")
        spatialkeys == SpatialKeys(axiskeys)
        sigma == [i \in 1..Len(spatialkeys) |-> SigmaGet(sigmas, spatialkeys[i])]
        \* getTaggedShape() without 'c'
        inputSpatialShape == RemoveAt(shape, ci)
        spStart == RemoveAt(roi.start, ci)
        spStop == RemoveAt(roi.stop, ci)
        inputSpatialRoi == extendSlice(spStart, spStop, inputSpatialShape, sigma, Window)
        inputRoiOffset == VecSub(spStart, inputSpatialRoi.start)
    IN  [ inputRoi |-> [start |-> InsertAt(inputSpatialRoi.start, ci, 0),
                        stop  |-> InsertAt(inputSpatialRoi.stop, ci, 1)],
          computeRoi |-> [start |-> inputRoiOffset,
                          stop  |-> VecSub(VecAdd(inputRoiOffset, spStop), spStart)] ]

\* result[...,0]: the result buffer without its last axis
DropLastAxis(shape) == SubSeq(shape, 1, Len(shape) - 1)

\* vigra.filters.gaussianSmoothing(data, sigma, roi=computeRoi, out=out):
\* the data's last axis is its channel axis; there is one sigma per spatial
\* axis, the roi must lie inside the spatial shape of the data and out must
\* have the roi's shape.
GaussianSmoothingShape(dataShape, sigma, computeRoi, outShape) ==
    LET spatial == DropLastAxis(dataShape)
        extent == VecSub(computeRoi.stop, computeRoi.start)
    IN  IF /\ Len(spatial) = Len(extent)
           /\ Len(sigma) = Len(spatial)
           /\ \A i \in 1..Len(extent) :
                 /\ 0 <= computeRoi.start[i]
                 /\ computeRoi.start[i] < computeRoi.stop[i]
                 /\ computeRoi.stop[i] <= spatial[i]
           /\ outShape = extent
        THEN [ok |-> TRUE, shape |-> extent]
        ELSE [ok |-> FALSE, shape |-> <<>>]

\* A slip in execute: a roi beyond the input's shape is not rejected, and
\* extendSlice clips it
SmootherExecuteRequest_Clipping(axiskeys, shape, sigmas, roi) ==
    [ok |-> TRUE, rois |-> GetInputComputeRois(axiskeys, shape, sigmas, roi)]

\* OpAnisotropicGaussianSmoothing.execute up to the wait of line 55: the
\* assertion on the roi, then the ROIs of the input request
SmootherExecuteRequest(axiskeys, shape, sigmas, roi) ==
    IF ~VecLeq(roi.stop, shape)
    THEN [ok |-> FALSE, rois |-> [inputRoi |-> NoRoi, computeRoi |-> NoRoi]]
    ELSE [ok |-> TRUE, rois |-> GetInputComputeRois(axiskeys, shape, sigmas, roi)]

\* The outcome of an execute that failed its assertion
RoiTooLarge == [status |-> "roi too large", shape |-> <<>>, smoothed |-> <<>>]

\* OpAnisotropicGaussianSmoothing.execute after the wait: the data obtained
\* for inputRoi is smoothed with the sigmas the operator holds now, into the
\* result buffer allocated for roi by the caller.
SmootherExecuteSmooth(axiskeys, sigmas, roi, rois) ==
    LET spatialkeys == SpatialKeys(axiskeys)
        sigma == [i \in 1..Len(spatialkeys) |-> SigmaGet(sigmas, spatialkeys[i])]
        dataShape == VecSub(rois.inputRoi.stop, rois.inputRoi.start)
        resultShape == VecSub(roi.stop, roi.start)
        sm == GaussianSmoothingShape(dataShape, sigma, rois.computeRoi,
                                     DropLastAxis(resultShape))
        expectedShape == VecSub(rois.computeRoi.stop, rois.computeRoi.start)
    IN  IF ~sm.ok
        THEN [status |-> "vigra error", shape |-> <<>>, smoothed |-> <<>>]
        ELSE IF sm.shape # expectedShape
        THEN [status |-> "shape mismatch", shape |-> <<>>, smoothed |-> sm.shape]
        ELSE [status |-> "ok", shape |-> resultShape, smoothed |-> sm.shape]

\* A slip in propagateDirty: the dirty input region forwarded without its halo
DirtyRoiForInput_NoHalo(axiskeys, shape, sigmas, roi) == roi

\* propagateDirty, slot == self.Input: the region marked dirty on Output
DirtyRoiForInput(axiskeys, shape, sigmas, roi) ==
    GetInputComputeRois(axiskeys, shape, sigmas, roi).inputRoi

\* No execute is suspended
NoPending == [roi |-> NoRoi, inputRoi |-> NoRoi, computeRoi |-> NoRoi]

\* The shapes of the smoother's input: the first spatial axis has any extent,
\* the other spatial axes an extent of SideExtents
SideExtents == {2}
SmShapes(keys) ==
    { sh \in ShapesOf(keys) :
        \A i \in 1..Len(keys) :
            (keys[i] # "c" /\ \E j \in 1..(i - 1) : keys[j] # "c")
                => sh[i] \in SideExtents }

\* The values set on Sigmas: a dict with the keys x, y and z; the key of an
\* axis the input does not have is 0
SmSigmaDicts(keys) ==
    { s \in SigmaDicts :
        \A k \in {"x", "y", "z"} :
            (\A i \in 1..Len(keys) : keys[i] # k) => SigmaGet(s, k) = 0 }

SmInit ==
    /\ smAxisKeys \in AxisLayouts
    /\ smShape \in SmShapes(smAxisKeys)
    /\ smSigmas \in SmSigmaDicts(smAxisKeys)
    /\ smOp = "setupOutputs"
    /\ smRoi = NoRoi
    /\ smInputRoi = NoRoi
    /\ smComputeRoi = NoRoi
    /\ smResult = NoResult
    /\ smDirty = DirtyAll
    /\ smPending = NoPending

\* No call is running on the smoother
SmIdle == smOp = "idle"

\* An execute is suspended in the wait of line 55 and no handler is running
SmWaiting == smOp = "wait"

\* execute on Output for a requested roi, up to the wait for the input: the
\* assertion on the roi fails the call, otherwise the ROIs are computed, the
\* input is requested and the call is suspended
SmExecute ==
    /\ SmIdle
    /\ \E roi \in RequestRois(smAxisKeys, smShape) :
        LET req == SmootherExecuteRequest(smAxisKeys, smShape, smSigmas, roi)
        IN  /\ smRoi' = roi
            /\ smInputRoi' = req.rois.inputRoi
            /\ smComputeRoi' = req.rois.computeRoi
            /\ smDirty' = DirtyNone
            /\ IF req.ok
               THEN /\ smOp' = "wait"
                    /\ smResult' = NoResult
                    /\ smPending' = [roi |-> roi, inputRoi |-> req.rois.inputRoi,
                                     computeRoi |-> req.rois.computeRoi]
               ELSE /\ smOp' = "execute"
                    /\ smResult' = RoiTooLarge
                    /\ smPending' = NoPending
            /\ UNCHANGED <<smAxisKeys, smShape, smSigmas, smOthers>>

\* The input request is answered: execute resumes, reads self._sigmas again
\* and smooths the data it obtained
SmExecuteResume ==
    /\ SmWaiting
    /\ smOp' = "execute"
    /\ smRoi' = smPending.roi
    /\ smInputRoi' = smPending.inputRoi
    /\ smComputeRoi' = smPending.computeRoi
    /\ smResult' = SmootherExecuteSmooth(smAxisKeys, smSigmas, smPending.roi,
                        [inputRoi |-> smPending.inputRoi,
                         computeRoi |-> smPending.computeRoi])
    /\ smDirty' = DirtyNone
    /\ smPending' = NoPending
    /\ UNCHANGED <<smAxisKeys, smShape, smSigmas, smOthers>>

\* propagateDirty(self.Input, roi), also while an execute is suspended
SmPropagateDirtyInput ==
    /\ SmIdle \/ SmWaiting
    /\ \E roi \in RoisWithin(smShape) :
        LET rois == GetInputComputeRois(smAxisKeys, smShape, smSigmas, roi)
        IN  /\ smOp' = "dirtyInput"
            /\ smRoi' = roi
            /\ smInputRoi' = rois.inputRoi
            /\ smComputeRoi' = rois.computeRoi
            /\ smResult' = NoResult
            /\ smDirty' = DirtyRegion(DirtyRoiForInput(smAxisKeys, smShape, smSigmas, roi))
            /\ UNCHANGED <<smAxisKeys, smShape, smSigmas, smPending, smOthers>>

\* A value is set on Sigmas: setupOutputs stores it and marks Output dirty,
\* and propagateDirty(self.Sigmas, roi) marks Output dirty; also while an
\* execute is suspended
SmPropagateDirtySigmas ==
    /\ SmIdle \/ SmWaiting
    /\ \E s \in SmSigmaDicts(smAxisKeys) :
        /\ smSigmas' = s
        /\ smOp' = "dirtySigmas"
        /\ smRoi' = NoRoi
        /\ smInputRoi' = NoRoi
        /\ smComputeRoi' = NoRoi
        /\ smResult' = NoResult
        /\ smDirty' = DirtyAll
        /\ UNCHANGED <<smAxisKeys, smShape, smPending, smOthers>>

\* The call returns. Its locals (roi, inputRoi, computeRoi) go out of scope;
\* when an execute is suspended, control is back in its wait, with its locals
SmReturn ==
    /\ ~SmIdle /\ ~SmWaiting
    /\ IF smPending = NoPending
       THEN /\ smOp' = "idle"
            /\ smRoi' = NoRoi
            /\ smInputRoi' = NoRoi
            /\ smComputeRoi' = NoRoi
       ELSE /\ smOp' = "wait"
            /\ smRoi' = smPending.roi
            /\ smInputRoi' = smPending.inputRoi
            /\ smComputeRoi' = smPending.computeRoi
    /\ smResult' = NoResult
    /\ smDirty' = DirtyNone
    /\ UNCHANGED <<smAxisKeys, smShape, smSigmas, smPending, smOthers>>

SmNext ==
    \/ SmExecute
    \/ SmExecuteResume
    \/ SmPropagateDirtyInput
    \/ SmPropagateDirtySigmas
    \/ SmReturn


\* A fixed configuration of the smoother, for the behaviours of the other
\* operators
SmRest ==
    /\ smAxisKeys = <<"x", "y", "c">>
    /\ smShape = <<1, 1, 1>>
    /\ smSigmas = [x |-> 0, y |-> 0, z |-> 0]
    /\ smOp = "setupOutputs"
    /\ smRoi = NoRoi
    /\ smInputRoi = NoRoi
    /\ smComputeRoi = NoRoi
    /\ smResult = NoResult
    /\ smDirty = DirtyAll
    /\ smPending = NoPending

-----------------------------------------------------------------------------
(* OpSelectLabels *)
(* Label volumes are one-dimensional here: a ROI is [start, stop) with     *)
(* 0 <= start < stop <= VolLen, an array over it a sequence of stop-start  *)
(* values.                                                                 *)

LabelValues == 0..MaxLabel

\* The label arrays over a ROI of n pixels
LabelArrays(n) == [1..n -> LabelValues]

\* The ROIs of a volume of VolLen pixels
SelRois == { r \in [start : 0..VolLen, stop : 0..VolLen] : r.start < r.stop }

RoiLen(r) == r.stop - r.start

\* A memory-careless order: both inputs requested up front
SelectProgram_BothUpFront ==
    << "requestSmall", "requestBig", "waitSmall", "waitBig", "cleanSmall",
       "reduceSmall", "delSmall", "product", "threshold" >>

\* The statements of OpSelectLabels.execute, in program order
SelectProgram ==
    << "requestSmall",  \* smallLabelsReq = self.SmallLabels(roi.start, roi.stop)
       "waitSmall",     \* smallLabels = smallLabelsReq.wait()
       "cleanSmall",    \* smallLabelsReq.clean()
       "reduceSmall",   \* smallNonZero[...] = (smallLabels != 0)
       "delSmall",      \* del smallLabels
       "requestBig",    \* self.BigLabels(roi.start, roi.stop)
       "waitBig",       \* bigLabels = (...).wait()
       "product",       \* prod = smallNonZero * bigLabels
       "threshold" >>   \* result[:] = (prod>0).astype(numpy.uint8); return result

SelDonePc == Len(SelectProgram) + 1

SelAt(instr) == selPc \in 1..Len(SelectProgram) /\ SelectProgram[selPc] = instr

\* smallLabels != 0
NonZeroMask(labels) == [i \in 1..Len(labels) |-> labels[i] # 0]

\* smallNonZero * bigLabels: bool times label
MaskProduct(mask, labels) ==
    [i \in 1..Len(labels) |-> (IF mask[i] THEN 1 ELSE 0) * labels[i]]

\* (prod>0).astype(numpy.uint8)
PositiveToUint8(prod) == [i \in 1..Len(prod) |-> IF prod[i] > 0 THEN 1 ELSE 0]

SelInit ==
    /\ selPc = 0
    /\ selRoi = [start |-> 0, stop |-> 0]
    /\ selUpSmall = <<>>
    /\ selUpBig = <<>>
    /\ selSmallReq = "none"
    /\ selBigReq = "none"
    /\ selSmallLabels = <<>>
    /\ selSmallNonZero = <<>>
    /\ selBigLabels = <<>>
    /\ selProd = <<>>
    /\ selResult = <<>>

\* execute(slot, subindex, roi, result) is called
SelExecute ==
    /\ selPc = 0
    /\ \E roi \in SelRois : selRoi' = roi
    /\ selPc' = 1
    /\ UNCHANGED <<selUpSmall, selUpBig, selSmallReq, selBigReq, selSmallLabels,
                   selSmallNonZero, selBigLabels, selProd, selResult>>
    /\ UNCHANGED selOthers

SelRequestSmall ==
    /\ SelAt("requestSmall")
    /\ selSmallReq' = "pending"
    /\ selPc' = selPc + 1
    /\ UNCHANGED <<selRoi, selUpSmall, selUpBig, selBigReq, selSmallLabels,
                   selSmallNonZero, selBigLabels, selProd, selResult>>
    /\ UNCHANGED selOthers

\* The upstream operator delivers the small labels over roi
SelWaitSmall ==
    /\ SelAt("waitSmall")
    /\ selSmallReq = "pending"
    /\ \E data \in LabelArrays(RoiLen(selRoi)) :
          /\ selUpSmall' = data
          /\ selSmallLabels' = data
    /\ selSmallReq' = "finished"
    /\ selPc' = selPc + 1
    /\ UNCHANGED <<selRoi, selUpBig, selBigReq, selSmallNonZero, selBigLabels,
                   selProd, selResult>>
    /\ UNCHANGED selOthers

SelCleanSmall ==
    /\ SelAt("cleanSmall")
    /\ selSmallReq' = "cleaned"
    /\ selPc' = selPc + 1
    /\ UNCHANGED <<selRoi, selUpSmall, selUpBig, selBigReq, selSmallLabels,
                   selSmallNonZero, selBigLabels, selProd, selResult>>
    /\ UNCHANGED selOthers

SelReduceSmall ==
    /\ SelAt("reduceSmall")
    /\ selSmallNonZero' = NonZeroMask(selSmallLabels)
    /\ selPc' = selPc + 1
    /\ UNCHANGED <<selRoi, selUpSmall, selUpBig, selSmallReq, selBigReq,
                   selSmallLabels, selBigLabels, selProd, selResult>>
    /\ UNCHANGED selOthers

SelDelSmall ==
    /\ SelAt("delSmall")
    /\ selSmallLabels' = <<>>
    /\ selPc' = selPc + 1
    /\ UNCHANGED <<selRoi, selUpSmall, selUpBig, selSmallReq, selBigReq,
                   selSmallNonZero, selBigLabels, selProd, selResult>>
    /\ UNCHANGED selOthers

SelRequestBig ==
    /\ SelAt("requestBig")
    /\ selBigReq' = "pending"
    /\ selPc' = selPc + 1
    /\ UNCHANGED <<selRoi, selUpSmall, selUpBig, selSmallReq, selSmallLabels,
                   selSmallNonZero, selBigLabels, selProd, selResult>>
    /\ UNCHANGED selOthers

\* The upstream operator delivers the big labels over roi
SelWaitBig ==
    /\ SelAt("waitBig")
    /\ selBigReq = "pending"
    /\ \E data \in LabelArrays(RoiLen(selRoi)) :
          /\ selUpBig' = data
          /\ selBigLabels' = data
    /\ selBigReq' = "finished"
    /\ selPc' = selPc + 1
    /\ UNCHANGED <<selRoi, selUpSmall, selSmallReq, selSmallLabels,
                   selSmallNonZero, selProd, selResult>>
    /\ UNCHANGED selOthers

SelProduct ==
    /\ SelAt("product")
    /\ selProd' = MaskProduct(selSmallNonZero, selBigLabels)
    /\ selPc' = selPc + 1
    /\ UNCHANGED <<selRoi, selUpSmall, selUpBig, selSmallReq, selBigReq,
                   selSmallLabels, selSmallNonZero, selBigLabels, selResult>>
    /\ UNCHANGED selOthers

SelThreshold ==
    /\ SelAt("threshold")
    /\ selResult' = PositiveToUint8(selProd)
    /\ selPc' = selPc + 1
    /\ UNCHANGED <<selRoi, selUpSmall, selUpBig, selSmallReq, selBigReq,
                   selSmallLabels, selSmallNonZero, selBigLabels, selProd>>
    /\ UNCHANGED selOthers

\* execute has returned: its locals and requests are dropped
SelReturn ==
    /\ selPc = SelDonePc
    /\ selPc' = 0
    /\ selRoi' = [start |-> 0, stop |-> 0]
    /\ selUpSmall' = <<>>
    /\ selUpBig' = <<>>
    /\ selSmallReq' = "none"
    /\ selBigReq' = "none"
    /\ selSmallLabels' = <<>>
    /\ selSmallNonZero' = <<>>
    /\ selBigLabels' = <<>>
    /\ selProd' = <<>>
    /\ selResult' = <<>>
    /\ UNCHANGED selOthers

SelNext ==
    \/ SelExecute
    \/ SelRequestSmall
    \/ SelWaitSmall
    \/ SelCleanSmall
    \/ SelReduceSmall
    \/ SelDelSmall
    \/ SelRequestBig
    \/ SelWaitBig
    \/ SelProduct
    \/ SelThreshold
    \/ SelReturn

-----------------------------------------------------------------------------
(* OpThresholdTwoLevels *)

NoDrange == [set |-> FALSE, lo |-> 0, hi |-> 0]
Dranges == { NoDrange } \cup { [set |-> TRUE, lo |-> l, hi |-> MaxValue] : l \in {0, 1} }

ChannelValues == 0..(MaxChannels + 1)
ThresholdValues == 0..ThreshDen
\* Size limits offered to the size filter: the small lower limits and the
\* upper limits near the volume's length
MinSizeValues == 1..2
MaxSizeValues == (VolLen - 1)..VolLen
\* The size windows of the data flow: the widest, which keeps every
\* component, and one that drops the smallest and the largest components
SizeWindows == { <<1, VolLen>>, <<2, VolLen - 1>> }

\* An off-by-none variant of the channel fallback: every index that is not a
\* valid slice index falls back to 0
HackChannel_Strict(channel, numChannels) ==
    IF channel >= numChannels THEN 0 ELSE channel

\* setupOutputs: hackChannel = self.Channel.value;
\* if hackChannel > shape[channelAxis]: hackChannel = 0
HackChannel(channel, numChannels) ==
    IF channel > numChannels THEN 0 ELSE channel

\* self._opChannelSlicer.Slices[ hackChannel ]: the slices are 0 .. numChannels-1
SliceExists(index, numChannels) == 0 <= index /\ index < numChannels

\* A slip: the threshold functions are built from the thresholds bound
\* before, where there are any
SetupOutputs_FromBoundThresholds(numChannels, channel, low, high, oldSlice, oldLowFn, oldHighFn) ==
    LET hackChannel == HackChannel(channel, numChannels)
    IN  IF SliceExists(hackChannel, numChannels)
        THEN [setup |-> "ok", slice |-> hackChannel,
              lowFn |-> IF oldLowFn = -1 THEN low ELSE oldLowFn + low,
              highFn |-> IF oldHighFn = -1 THEN high ELSE oldHighFn + high]
        ELSE [setup |-> "IndexError", slice |-> oldSlice,
              lowFn |-> oldLowFn, highFn |-> oldHighFn]

\* OpThresholdTwoLevels.setupOutputs: the state it leaves, given the slice
\* connected before. Indexing a slice that does not exist raises IndexError
\* before the connection and the threshold functions are touched.
SetupOutputs(numChannels, channel, low, high, oldSlice, oldLowFn, oldHighFn) ==
    LET hackChannel == HackChannel(channel, numChannels)
    IN  IF SliceExists(hackChannel, numChannels)
        THEN [setup |-> "ok", slice |-> hackChannel, lowFn |-> low, highFn |-> high]
        ELSE [setup |-> "IndexError", slice |-> oldSlice,
              lowFn |-> oldLowFn, highFn |-> oldHighFn]

\* OpMultiArraySlicer2 resizes Slices to the channel count: a slice that
\* disappears is disconnected from the smoother
SliceAfterResize(slice, numChannels) ==
    IF SliceExists(slice, numChannels) THEN slice ELSE -1

\* thresholdToUint8(thresholdValue, a), thresholdValue = t / ThreshDen:
\* a > thresholdValue * drange[1], or a > thresholdValue without a drange
ThresholdToUint8(t, a, drange) ==
    IF drange.set /\ drange.lo # 0
    THEN [ok |-> FALSE, out |-> <<>>]
    ELSE [ok |-> TRUE,
          out |-> [i \in 1..Len(a) |->
                     IF a[i] * ThreshDen > t * (IF drange.set THEN drange.hi ELSE 1)
                     THEN 1 ELSE 0]]

\* OpVigraLabelVolume on a one-dimensional binary volume: each run of
\* foreground pixels is one component, numbered 1, 2, ... along the axis
LabelVolume(bin) ==
    [i \in 1..Len(bin) |->
        IF bin[i] = 0 THEN 0
        ELSE Cardinality({ j \in 1..i : bin[j] # 0 /\ (j = 1 \/ bin[j-1] = 0) })]

\* OpFilterLabels: components smaller than minSize or larger than maxSize are
\* set to 0
FilterLabels(labels, minSize, maxSize) ==
    [i \in 1..Len(labels) |->
        LET size == Cardinality({ j \in 1..Len(labels) : labels[j] = labels[i] })
        IN  IF labels[i] # 0 /\ minSize <= size /\ size <= maxSize
            THEN labels[i] ELSE 0]

\* OpSelectLabels.execute as a function of the two label arrays
SelectLabelsOutput(small, big) ==
    PositiveToUint8(MaskProduct(NonZeroMask(small), big))

\* The smoothed volumes: every pixel a value of the display range
SmoothedVolumes == [1..VolLen -> 0..MaxValue]

\* A slip: the scaled threshold replaces the bound one
BoundThresholdAfterCall_Accumulating(t, drange) ==
    IF drange.set THEN t * drange.hi ELSE t

\* partial( thresholdToUint8, threshold ): thresholdValue *= drange[1]
\* rebinds the local name of the call; the value bound in the partial stays
BoundThresholdAfterCall(t, drange) == t

TlReadIdle ==
    /\ tlRead = "idle"
    /\ tlCalls = 0
    /\ tlSmoothed = <<>>
    /\ tlSmoothedBig = <<>>
    /\ tlBigRegions = <<>>
    /\ tlSmallRegions = <<>>
    /\ tlBigLabels = <<>>
    /\ tlSmallLabels = <<>>
    /\ tlHighLabels = <<>>
    /\ tlOutput = <<>>

\* The operator after construction and a first setupOutputs, for any
\* parameter values
TlInitWith(channels, chans, lows, highs, mins, maxs, dranges) ==
    /\ tlNumChannels \in channels
    /\ tlChannel \in chans
    /\ tlLow \in lows
    /\ tlHigh \in highs
    /\ tlMinSize \in mins
    /\ tlMaxSize \in maxs
    /\ tlDrange \in dranges
    /\ LET st == SetupOutputs(tlNumChannels, tlChannel, tlLow, tlHigh, -1, -1, -1)
       IN  /\ tlSlice = st.slice
           /\ tlSetup = st.setup
           /\ tlOp = "setupOutputs"
           /\ tlLowFn = st.lowFn
           /\ tlHighFn = st.highFn
    /\ TlReadIdle

\* Configuration: any channel count, a channel of the image, any thresholds
\* and display range
TlSetupInit ==
    /\ TlInitWith(1..MaxChannels, ChannelValues, ThresholdValues, ThresholdValues,
                  {1}, {VolLen}, Dranges)
    /\ tlChannel < tlNumChannels

\* Data flow: a valid channel, any thresholds, size bounds and display range
TlPipelineInit ==
    /\ TlInitWith({1}, {0}, ThresholdValues, ThresholdValues, MinSizeValues,
                  MaxSizeValues, Dranges)
    /\ <<tlMinSize, tlMaxSize>> \in SizeWindows

\* A fixed configuration, for the behaviours of the other operators
TlRest ==
    TlInitWith({1}, {0}, {0}, {ThreshDen}, {1}, {VolLen},
               {[set |-> TRUE, lo |-> 0, hi |-> MaxValue]})

\* setupOutputs, rerun after an input of the operator changed
TlRerunSetup(numChannels, channel, low, high, slice) ==
    LET st == SetupOutputs(numChannels, channel, low, high, slice, tlLowFn, tlHighFn)
    IN  /\ tlSlice' = st.slice
        /\ tlSetup' = st.setup
        /\ tlOp' = "setupOutputs"
        /\ tlLowFn' = st.lowFn
        /\ tlHighFn' = st.highFn

\* Channel.setValue(c)
TlSetChannel ==
    /\ \E c \in ChannelValues :
          /\ c # tlChannel
          /\ tlChannel' = c
          /\ TlRerunSetup(tlNumChannels, c, tlLow, tlHigh, tlSlice)
    /\ UNCHANGED <<tlNumChannels, tlLow, tlHigh, tlMinSize, tlMaxSize, tlDrange>>
    /\ UNCHANGED <<tlReadVars, tlOthers>>

\* InputImage gets a new channel count
TlSetInputImage ==
    /\ \E n \in 1..MaxChannels :
          /\ n # tlNumChannels
          /\ tlNumChannels' = n
          /\ TlRerunSetup(n, tlChannel, tlLow, tlHigh, SliceAfterResize(tlSlice, n))
    /\ UNCHANGED <<tlChannel, tlLow, tlHigh, tlMinSize, tlMaxSize, tlDrange>>
    /\ UNCHANGED <<tlReadVars, tlOthers>>

\* LowThreshold.setValue(t)
TlSetLowThreshold ==
    /\ \E t \in ThresholdValues :
          /\ t # tlLow
          /\ tlLow' = t
          /\ TlRerunSetup(tlNumChannels, tlChannel, t, tlHigh, tlSlice)
    /\ UNCHANGED <<tlNumChannels, tlChannel, tlHigh, tlMinSize, tlMaxSize, tlDrange>>
    /\ UNCHANGED <<tlReadVars, tlOthers>>

\* HighThreshold.setValue(t)
TlSetHighThreshold ==
    /\ \E t \in ThresholdValues :
          /\ t # tlHigh
          /\ tlHigh' = t
          /\ TlRerunSetup(tlNumChannels, tlChannel, tlLow, t, tlSlice)
    /\ UNCHANGED <<tlNumChannels, tlChannel, tlLow, tlMinSize, tlMaxSize, tlDrange>>
    /\ UNCHANGED <<tlReadVars, tlOthers>>

\* setupOutputs is called again with every input as it was
TlSetupAgain ==
    /\ LET st == SetupOutputs(tlNumChannels, tlChannel, tlLow, tlHigh,
                              tlSlice, tlLowFn, tlHighFn)
       IN  /\ tlSlice' = st.slice
           /\ tlSetup' = st.setup
           /\ tlOp' = "setupOutputs again"
           /\ tlLowFn' = st.lowFn
           /\ tlHighFn' = st.highFn
    /\ UNCHANGED <<tlNumChannels, tlChannel, tlLow, tlHigh, tlMinSize, tlMaxSize,
                   tlDrange>>
    /\ UNCHANGED <<tlReadVars, tlOthers>>

\* What the smoother serves at a later request of the same read: the volume
\* it served before, or, the input image having changed in between, a blank
\* one
VolumesAfter(smoothed) == { smoothed, [i \in 1..VolLen |-> 0] }

\* The arrays of a read that raised are released
TlReadRaised ==
    /\ tlRead' = "AssertionError"
    /\ tlSmoothed' = <<>>
    /\ tlSmoothedBig' = <<>>
    /\ tlBigRegions' = <<>>
    /\ tlSmallRegions' = <<>>
    /\ tlBigLabels' = <<>>
    /\ tlSmallLabels' = <<>>
    /\ tlHighLabels' = <<>>
    /\ tlOutput' = <<>>

\* Output is read over the whole volume: OpSelectLabels.execute requests the
\* small labels and waits for them (line 148)
TlReadOutput ==
    /\ tlRead = "idle"
    /\ tlRead' = "wait SmallLabels"
    /\ tlSetup = "ok"
    /\ tlCalls' = IF tlCalls = 0 THEN 1 ELSE 2
    /\ UNCHANGED <<tlSmoothed, tlSmoothedBig, tlBigRegions, tlSmallRegions,
                   tlBigLabels, tlSmallLabels, tlHighLabels, tlOutput>>
    /\ UNCHANGED <<tlConfVars, tlOthers>>

\* The wait of line 148 ends. The request for the small labels was served
\* during it: it ran the high threshold function, as bound then, on what the
\* smoother served then, the labeler and the size filter. A threshold
\* function that fails its assertion fails the request, and the read with
\* it. With the small labels OpSelectLabels.execute goes on (lines 149-156),
\* requests the big labels and waits for them (line 157).
TlReadBigLabels ==
    /\ tlRead = "wait SmallLabels"
    /\ tlHighFn' = BoundThresholdAfterCall(tlHighFn, tlDrange)
    /\ \E smoothed \in SmoothedVolumes :
          LET highBin == ThresholdToUint8(tlHighFn, smoothed, tlDrange)
              highLabels == LabelVolume(highBin.out)
              small == FilterLabels(highLabels, tlMinSize, tlMaxSize)
          IN  IF highBin.ok
              THEN /\ tlSmoothed' = smoothed
                   /\ tlRead' = "wait BigLabels"
                   /\ tlSmallRegions' = highBin.out
                   /\ tlHighLabels' = highLabels
                   /\ tlSmallLabels' = small
                   /\ UNCHANGED <<tlSmoothedBig, tlBigRegions, tlBigLabels,
                                  tlOutput>>
              ELSE TlReadRaised
    /\ UNCHANGED <<tlNumChannels, tlChannel, tlLow, tlHigh, tlMinSize, tlMaxSize,
                   tlDrange, tlSlice, tlSetup, tlOp, tlLowFn, tlCalls>>
    /\ UNCHANGED tlOthers

\* The wait of line 157 ends. The request for the big labels was served
\* during it: it ran the low threshold function, as bound then, on what the
\* smoother served then, and the labeler. With the big labels
\* OpSelectLabels.execute writes the result and returns it (lines 158-180).
TlReadResult ==
    /\ tlRead = "wait BigLabels"
    /\ tlLowFn' = BoundThresholdAfterCall(tlLowFn, tlDrange)
    /\ \E smoothed \in VolumesAfter(tlSmoothed) :
          LET lowBin == ThresholdToUint8(tlLowFn, smoothed, tlDrange)
              big == LabelVolume(lowBin.out)
          IN  IF lowBin.ok
              THEN /\ tlSmoothedBig' = smoothed
                   /\ tlRead' = "done"
                   /\ tlBigRegions' = lowBin.out
                   /\ tlBigLabels' = big
                   /\ tlOutput' = SelectLabelsOutput(tlSmallLabels, big)
                   /\ UNCHANGED <<tlSmoothed, tlSmallRegions, tlHighLabels,
                                  tlSmallLabels>>
              ELSE TlReadRaised
    /\ UNCHANGED <<tlNumChannels, tlChannel, tlLow, tlHigh, tlMinSize, tlMaxSize,
                   tlDrange, tlSlice, tlSetup, tlOp, tlHighFn, tlCalls>>
    /\ UNCHANGED tlOthers

\* The reader has the result, or the exception: the request is finished and
\* its arrays are released
TlReadReturn ==
    /\ tlRead \in {"done", "AssertionError"}
    /\ tlRead' = "idle"
    /\ tlSmoothed' = <<>>
    /\ tlSmoothedBig' = <<>>
    /\ tlBigRegions' = <<>>
    /\ tlSmallRegions' = <<>>
    /\ tlBigLabels' = <<>>
    /\ tlSmallLabels' = <<>>
    /\ tlHighLabels' = <<>>
    /\ tlOutput' = <<>>
    /\ UNCHANGED <<tlCalls, tlConfVars, tlOthers>>

\* Reads of Output, and changes of the thresholds before, between and during
\* them
TlPipelineNext ==
    \/ TlReadOutput
    \/ TlReadBigLabels
    \/ TlReadResult
    \/ TlReadReturn
    \/ TlSetLowThreshold
    \/ TlSetHighThreshold

-----------------------------------------------------------------------------
(* The block cache (OpCompressedCache) *)
(* A one-dimensional output of NumBlocks * BlockSize pixels; block b covers *)
(* the pixels [b * BlockSize, (b+1) * BlockSize). Block data is represented *)
(* by its relation to the producer's data: "current" if it was computed     *)
(* from the data the producer holds now, "stale" if the producer's data     *)
(* over the block has changed since. Data written through InputHdf5 is a    *)
(* persisted result of the producer that is restored: it is "current" until *)
(* the producer's data over the block changes.                              *)

Blocks == 0..(NumBlocks - 1)
Readers == {"r1", "r2"}

\* The reader that reads every roi twice
Rereader == "r1"

\* The ROIs of the cached output
CacheRois ==
    { r \in [start : 0..(NumBlocks * BlockSize), stop : 0..(NumBlocks * BlockSize)] :
        r.start < r.stop }

\* The blocks a ROI intersects, by block index
BlocksOf(roi) == (roi.start \div BlockSize)..((roi.stop - 1) \div BlockSize)

\* The extent of a block
BlockExtent(b) == [start |-> b * BlockSize, stop |-> (b + 1) * BlockSize]

\* A slip in the invalidation: only the block holding the start of the dirty
\* ROI is marked
DirtyBlocks_StartOnly(d) == { d.start \div BlockSize }

\* propagateDirty: the blocks marked dirty for a dirty ROI
DirtyBlocks(d) == BlocksOf(d)

\* No coalescing: a block that is being materialized is materialized again
NeedsMaterializing_NoCoalescing(state) == state \in {"absent", "dirty", "materializing"}

\* No caching: a clean block is materialized again
NeedsMaterializing_CleanToo(state) == state \in {"absent", "dirty", "clean"}

\* A read materializes the blocks that are absent or dirty; a block that is
\* being materialized is waited for
NeedsMaterializing(state) == state \in {"absent", "dirty"}

\* The result of a producer call is stored if the block was not invalidated
\* while the producer ran
MaterializedIsCurrent(state, current) == state = "materializing" /\ current

NoMat == [block |-> -1, roi |-> [start |-> 0, stop |-> 0], current |-> FALSE]
NothingGot == [b \in Blocks |-> "none"]

\* A read request: the blocks its roi intersects, the block data assembled
\* so far (got), the producer call it is running (mat). A caller that reads
\* a roi twice to compare the two reads keeps, as long as no dirty
\* notification has come since the first read began: whether this is the
\* first or the second read (pass 1 or 2; pass 0 is a read that is not
\* compared), the first read's data (prev), whether the second read invoked
\* the producer (invoked), how often the two reads invoked the producer for
\* each block (calls), and the blocks the first read copied from the cache
\* as it found them (taken).
IdleReader ==
    [pc |-> "idle", pass |-> 0, blocks |-> {},
     got |-> NothingGot, mat |-> NoMat, invoked |-> FALSE,
     prev |-> NothingGot, calls |-> [b \in Blocks |-> 0], taken |-> {}]

\* The cache after construction: no block is stored
CcInit ==
    /\ ccState = [b \in Blocks |-> "absent"]
    /\ ccData = [b \in Blocks |-> "none"]
    /\ ccUpstream = 0
    /\ ccProdCalls = [b \in Blocks |-> 0]
    /\ ccReader = [r \in Readers |-> IdleReader]

\* The read of r is one of two reads that are compared, and no dirty
\* notification has come since the first of them began
Compared(r) == ccReader[r].pass > 0

\* A dirty notification ends the comparison of the reads that are under way
\* or answered: what was kept for it is dropped
NotCompared(reader) ==
    [reader EXCEPT !.pass = 0, !.invoked = FALSE, !.prev = NothingGot,
                   !.calls = [b \in Blocks |-> 0], !.taken = {}]

\* The blocks reader r still has to obtain
Missing(r) ==
    { b \in ccReader[r].blocks : ccReader[r].got[b] = "none" }

\* A read assembles its blocks one after the other, in the order of the grid
CurrentBlock(r) ==
    CHOOSE b \in Missing(r) : \A c \in Missing(r) : b <= c

\* Output[roi] is requested
CcReadStart(r) ==
    /\ ccReader[r].pc = "idle"
    /\ \E blocks \in { BlocksOf(roi) : roi \in CacheRois } :
          ccReader' = [ccReader EXCEPT ![r] =
              [IdleReader EXCEPT !.pc = "reading", !.blocks = blocks]]
    /\ UNCHANGED <<ccState, ccData, ccUpstream, ccProdCalls, ccOthers>>

\* Output[roi] is requested by a caller that will request it a second time
\* and compare
CcReadFirst(r) ==
    /\ ccReader[r].pc = "idle"
    /\ \E blocks \in { BlocksOf(roi) : roi \in CacheRois } :
          ccReader' = [ccReader EXCEPT ![r] =
              [IdleReader EXCEPT !.pc = "reading", !.pass = 1,
                                 !.blocks = blocks]]
    /\ UNCHANGED <<ccState, ccData, ccUpstream, ccProdCalls, ccOthers>>

\* The same roi is requested again after the first read was answered
CcReread(r) ==
    /\ ccReader[r].pc = "done"
    /\ ccReader[r].pass = 1
    /\ ccReader' = [ccReader EXCEPT ![r] =
          [ccReader[r] EXCEPT !.pc = "reading", !.pass = 2,
                              !.prev = ccReader[r].got,
                              !.got = NothingGot, !.invoked = FALSE]]
    /\ UNCHANGED <<ccState, ccData, ccUpstream, ccProdCalls, ccOthers>>

\* A clean block is copied into the result
CcTakeClean(r) ==
    /\ ccReader[r].pc = "reading"
    /\ ccReader[r].mat = NoMat
    /\ Missing(r) # {}
    /\ LET b == CurrentBlock(r)
       IN  /\ ccState[b] = "clean"
           /\ ccReader' = [ccReader EXCEPT ![r] =
                 [ccReader[r] EXCEPT
                     !.got[b] = ccData[b],
                     !.taken = IF ccReader[r].pass = 1 THEN @ \cup {b} ELSE @]]
    /\ UNCHANGED <<ccState, ccData, ccUpstream, ccProdCalls, ccOthers>>

\* The producer is invoked for the extent of a block that is not materialized
CcMaterialize(r) ==
    /\ ccReader[r].pc = "reading"
    /\ ccReader[r].mat = NoMat
    /\ Missing(r) # {}
    /\ LET b == CurrentBlock(r)
       IN  /\ NeedsMaterializing(ccState[b])
           /\ ccState' = [ccState EXCEPT ![b] = "materializing"]
           /\ ccProdCalls' = [ccProdCalls EXCEPT ![b] = @ + 1]
           /\ ccReader' = [ccReader EXCEPT ![r] =
                 [ccReader[r] EXCEPT
                     !.mat = [block |-> b, roi |-> BlockExtent(b),
                              current |-> TRUE],
                     !.invoked = (ccReader[r].pass = 2),
                     !.calls[b] = IF Compared(r) THEN @ + 1 ELSE @]]
    /\ UNCHANGED <<ccData, ccUpstream, ccOthers>>

\* The producer returns: the block is stored and becomes clean, unless it was
\* invalidated meanwhile, in which case the result is dropped
CcMaterialized(r) ==
    /\ ccReader[r].mat # NoMat
    /\ LET b == ccReader[r].mat.block
       IN  IF MaterializedIsCurrent(ccState[b], ccReader[r].mat.current)
           THEN /\ ccState' = [ccState EXCEPT ![b] = "clean"]
                /\ ccData' = [ccData EXCEPT ![b] = "current"]
                /\ ccReader' = [ccReader EXCEPT ![r] =
                      [ccReader[r] EXCEPT !.mat = NoMat, !.got[b] = "current"]]
           ELSE /\ ccReader' = [ccReader EXCEPT ![r].mat = NoMat]
                /\ UNCHANGED <<ccState, ccData>>
    /\ UNCHANGED <<ccUpstream, ccProdCalls, ccOthers>>

\* All blocks of the roi are assembled: the read is answered
CcReadDone(r) ==
    /\ ccReader[r].pc = "reading"
    /\ ccReader[r].mat = NoMat
    /\ Missing(r) = {}
    /\ ccReader' = [ccReader EXCEPT ![r].pc = "done"]
    /\ UNCHANGED <<ccState, ccData, ccUpstream, ccProdCalls, ccOthers>>

\* The caller drops the answered request
CcReadReturn(r) ==
    /\ ccReader[r].pc = "done"
    /\ ccReader' = [ccReader EXCEPT ![r] = IdleReader]
    /\ UNCHANGED <<ccState, ccData, ccUpstream, ccProdCalls, ccOthers>>

\* The producer's data changes over a ROI d and the cache is notified:
\* propagateDirty marks blocks dirty. changed are the blocks d intersects,
\* marked the blocks propagateDirty marks for d. A new generation begins for
\* the marked blocks: their count of producer calls starts again.
CcDirty ==
    /\ ccUpstream < MaxGen
    /\ ccUpstream' = ccUpstream + 1
    /\ \E n \in { [changed |-> BlocksOf(d), marked |-> DirtyBlocks(d)] : d \in CacheRois } :
          /\ ccData' = [b \in Blocks |->
                IF b \in n.changed /\ ccData[b] = "current" THEN "stale" ELSE ccData[b]]
          /\ ccState' = [b \in Blocks |->
                IF b \in n.marked THEN "dirty" ELSE ccState[b]]
          /\ ccProdCalls' = [b \in Blocks |->
                IF b \in n.marked THEN 0 ELSE ccProdCalls[b]]
          /\ ccReader' = [r \in Readers |->
                [NotCompared(ccReader[r]) EXCEPT
                    !.mat = IF @.block \in n.changed
                            THEN [@ EXCEPT !.current = FALSE] ELSE @]]
    /\ UNCHANGED ccOthers

\* setInSlot(InputHdf5): block data supplied from outside seeds the cache, one
\* block at a step. A block the cache does not hold yet becomes clean without
\* a call of the producer.
CcSeed ==
    /\ \E b \in Blocks :
          /\ ccState[b] = "absent"
          /\ ccState' = [ccState EXCEPT ![b] = "clean"]
          /\ ccData' = [ccData EXCEPT ![b] = "current"]
    /\ UNCHANGED <<ccUpstream, ccProdCalls, ccReader, ccOthers>>

CcStep(r) ==
    \/ CcReadStart(r)
    \/ CcTakeClean(r)
    \/ CcMaterialize(r)
    \/ CcMaterialized(r)
    \/ CcReadDone(r)
    \/ CcReadReturn(r)

\* Two readers run concurrently, each reading one roi after the other
CcConcurrentNext ==
    \/ \E r \in Readers : CcStep(r)
    \/ CcDirty
    \/ CcSeed

\* Two readers run concurrently; the first of them repeats its reads
CcNext ==
    \/ \E r \in Readers : CcStep(r)
    \/ CcReadFirst(Rereader)
    \/ CcReread(Rereader)
    \/ CcDirty
    \/ CcSeed

-----------------------------------------------------------------------------
(* OpThresholdTwoLevels: the wiring of __init__ and reads through it *)

\* The output slots of OpThresholdTwoLevels
OutputSlots ==
    { "Output", "CachedOutput", "OutputHdf5", "CleanBlocks", "InputChannels",
      "Smoothed", "BigRegions", "SmallRegions", "FilteredSmallLabels" }

\* The block caches created in __init__
Caches ==
    { "_opCache", "_opBigRegionCache", "_opSmallRegionCache",
      "_opFilteredSmallLabelsCache" }

NoPartner == [op |-> "none", slot |-> "none"]

\* self.<slot>.connect( ... ): the inner slot each output slot is connected to
Partner(slot) ==
    CASE slot = "Output"              -> [op |-> "_opSelectLabels", slot |-> "Output"]
      [] slot = "CachedOutput"        -> [op |-> "_opCache", slot |-> "Output"]
      [] slot = "CleanBlocks"         -> [op |-> "_opCache", slot |-> "CleanBlocks"]
      [] slot = "OutputHdf5"          -> [op |-> "_opCache", slot |-> "OutputHdf5"]
      [] slot = "Smoothed"            -> [op |-> "_opSmoother", slot |-> "Output"]
      [] slot = "InputChannels"       -> [op |-> "_opChannelSlicer", slot |-> "Slices"]
      [] slot = "BigRegions"          -> [op |-> "_opBigRegionCache", slot |-> "Output"]
      [] slot = "SmallRegions"        -> [op |-> "_opSmallRegionCache", slot |-> "Output"]
      [] slot = "FilteredSmallLabels" -> [op |-> "_opColorizeSmallLabels", slot |-> "Output"]
      [] OTHER                        -> NoPartner

\* <op>.Input.connect( <upstream>.Output ): the inner operators whose outputs
\* feed the data inputs of an inner operator (InputImage feeds the slicer)
Upstream(op) ==
    CASE op = "_opChannelSlicer"            -> {}
      [] op = "_opSmoother"                 -> {"_opChannelSlicer"}
      [] op = "_opLowThresholder"           -> {"_opSmoother"}
      [] op = "_opHighThresholder"          -> {"_opSmoother"}
      [] op = "_opLowLabeler"               -> {"_opLowThresholder"}
      [] op = "_opHighLabeler"              -> {"_opHighThresholder"}
      [] op = "_opHighLabelSizeFilter"      -> {"_opHighLabeler"}
      [] op = "_opSelectLabels"             -> {"_opLowLabeler", "_opHighLabelSizeFilter"}
      [] op = "_opCache"                    -> {"_opSelectLabels"}
      [] op = "_opBigRegionCache"           -> {"_opLowThresholder"}
      [] op = "_opSmallRegionCache"         -> {"_opHighThresholder"}
      [] op = "_opFilteredSmallLabelsCache" -> {"_opHighLabelSizeFilter"}
      [] op = "_opColorizeSmallLabels"      -> {"_opFilteredSmallLabelsCache"}
      [] OTHER                              -> {}

\* The operators whose execute runs when slot of operator op is read: the
\* operator itself and, for the data it requests, the operators upstream. A
\* cache requests its input only for Output and only when it does not hold
\* the data.
RECURSIVE ExecutedBy(_, _, _)
ExecutedBy(op, slot, clean) ==
    IF op \in Caches /\ (slot # "Output" \/ op \in clean)
    THEN {op}
    ELSE {op} \cup UNION { ExecutedBy(u, "Output", clean) : u \in Upstream(op) }

\* The operators whose execute runs when an output slot of
\* OpThresholdTwoLevels is read: a connected slot forwards the read to its
\* partner, a slot without partner is served by the operator's own execute
ExecutedByRead(slot, clean) ==
    IF Partner(slot) = NoPartner
    THEN {"OpThresholdTwoLevels"}
    ELSE ExecutedBy(Partner(slot).op, Partner(slot).slot, clean)

\* No read is in progress
NoWrRead == [slot |-> "none", executed |-> {}, fresh |-> FALSE]

\* The operator after construction: nothing is cached, nothing was read
WrInit ==
    /\ wrClean = {}
    /\ wrRead = "none"
    /\ wrPrev = "none"
    /\ wrExecuted = {}
    /\ wrPending = NoWrRead

\* An output slot is read over the whole volume: the read is forwarded to the
\* partner of the slot, and the execute methods behind it run and wait for
\* their inputs
WrReadSlot ==
    /\ wrPending = NoWrRead
    /\ \E slot \in OutputSlots :
          wrPending' = [slot |-> slot,
                        executed |-> ExecutedByRead(slot, wrClean),
                        fresh |-> TRUE]
    /\ UNCHANGED <<wrClean, wrRead, wrPrev, wrExecuted, wrOthers>>

\* The read is answered: the caches whose Output was requested hold their
\* data afterwards, unless the input changed while the read was in progress
WrReadDone ==
    /\ wrPending # NoWrRead
    /\ wrRead' = wrPending.slot
    /\ wrPrev' = wrRead
    /\ wrExecuted' = wrPending.executed
    /\ wrClean' =
          IF wrPending.fresh
          THEN wrClean \cup
                 { c \in Caches \cap wrPending.executed :
                     \/ c # Partner(wrPending.slot).op
                     \/ Partner(wrPending.slot).slot = "Output" }
          ELSE wrClean
    /\ wrPending' = NoWrRead
    /\ UNCHANGED wrOthers

\* InputImage changes, also while a read is in progress: the dirty
\* notification reaches every cache
WrInputDirty ==
    /\ wrClean' = {}
    /\ wrRead' = "none"
    /\ wrPrev' = "none"
    /\ wrExecuted' = {}
    /\ wrPending' = IF wrPending = NoWrRead THEN NoWrRead
                    ELSE [wrPending EXCEPT !.fresh = FALSE]
    /\ UNCHANGED wrOthers

WrNext == WrReadSlot \/ WrReadDone \/ WrInputDirty

-----------------------------------------------------------------------------
(* OpAnisotropicGaussianSmoothing: setupOutputs and propagateDirty *)

\* Element types of the input
SuDtypes == { "uint8", "float32" }

\* Axis layouts of the input: two or three spatial axes and the channel axis
SuLayouts == AxisLayouts \cup { <<"z", "y", "x", "c">> }

\* Input.meta: spatial extents of 2 and one channel
SuInputMetas ==
    { [dtype |-> t, axiskeys |-> k,
       shape |-> [i \in 1..Len(k) |-> IF k[i] = "c" THEN 1 ELSE 2],
       drange |-> d] :
        t \in SuDtypes, k \in SuLayouts,
        d \in { NoDrange, [set |-> TRUE, lo |-> 0, hi |-> MaxValue] } }

\* A value on the Sigmas slot that is not a dict
NotADict == [isDict |-> FALSE, keys |-> {}, q |-> 0]

\* The values on the Sigmas slot: something that is not a dict, or a dict
\* with any of the keys x, y, z, each key with the value q / SigmaDen
SuSigmaValues ==
    { NotADict } \cup
    { [isDict |-> TRUE, keys |-> ks, q |-> q] :
        ks \in SUBSET {"x", "y", "z"}, q \in SigmaValues }

\* The default of the Sigmas slot: {'x':1.0, 'y':1.0, 'z':1.0}
DefaultSigmas == [isDict |-> TRUE, keys |-> {"x", "y", "z"}, q |-> SigmaDen]

\* The stored dict as the values for x, y and z
SigmaDictOf(v) == [x |-> v.q, y |-> v.q, z |-> v.q]

\* A slip: the element type of the input is kept
OutputMeta_KeepDtype(inputMeta) == inputMeta

\* Output.meta.assignFrom(self.Input.meta); Output.meta.dtype = numpy.float32
OutputMeta(inputMeta) == [inputMeta EXCEPT !.dtype = "float32"]

\* The two assertions of setupOutputs on self.Sigmas.value
SigmasAssertion(v) ==
    IF ~v.isDict THEN "Sigmas slot expects a dict"
    ELSE IF v.keys # {"x", "y", "z"}
    THEN "Sigmas slot expects three key-value pairs for x,y,z"
    ELSE "ok"

\* OpAnisotropicGaussianSmoothing.setupOutputs: the metadata is assigned and
\* the value stored before the assertions; Output is marked dirty after them
SmootherSetupOutputs(inputMeta, v) ==
    [ output |-> OutputMeta(inputMeta),
      stored |-> v,
      status |-> SigmasAssertion(v),
      dirty  |-> IF SigmasAssertion(v) = "ok" THEN DirtyAll ELSE DirtyNone ]

\* A slip in propagateDirty: only the roi of the notification is marked
DirtyForSigmas_RoiOnly(roi) == DirtyRegion(roi)

\* propagateDirty, slot == self.Sigmas: self.Output.setDirty( slice(None) )
DirtyForSigmas(roi) == DirtyAll

\* OpAnisotropicGaussianSmoothing.propagateDirty(slot, subindex, roi)
SmootherPropagateDirty(slot, inputMeta, stored, roi) ==
    IF slot = "Input"
    THEN [status |-> "ok",
          dirty |-> DirtyRegion(DirtyRoiForInput(inputMeta.axiskeys, inputMeta.shape,
                                                 SigmaDictOf(stored), roi))]
    ELSE IF slot = "Sigmas"
    THEN [status |-> "ok", dirty |-> DirtyForSigmas(roi)]
    ELSE [status |-> "Unknown input slot", dirty |-> DirtyNone]

\* The state setupOutputs leaves when called as op
SuAfterSetup(op, inputMeta, v) ==
    LET st == SmootherSetupOutputs(inputMeta, v)
    IN  /\ suInput' = inputMeta
        /\ suSigmas' = v
        /\ suStored' = st.stored
        /\ suOutput' = st.output
        /\ suOp' = op
        /\ suStatus' = st.status
        /\ suSlot' = "none"
        /\ suRoi' = NoRoi
        /\ suDirty' = st.dirty

\* The operator after its first setupOutputs, with inputs from the given sets
SuInitWith(metas, values) ==
    /\ suInput \in metas
    /\ suSigmas \in values
    /\ LET st == SmootherSetupOutputs(suInput, suSigmas)
       IN  /\ suStored = st.stored
           /\ suOutput = st.output
           /\ suStatus = st.status
           /\ suDirty = st.dirty
    /\ suOp = "setupOutputs"
    /\ suSlot = "none"
    /\ suRoi = NoRoi

\* Any input, and on Sigmas a dict with values for x, y and z, as the default
\* of the slot is
SuInit ==
    SuInitWith(SuInputMetas, { v \in SuSigmaValues : v.keys = {"x", "y", "z"} })

\* The smoother inside OpThresholdTwoLevels: SmootherSigma at its default
SuRest ==
    SuInitWith({ [dtype |-> "uint8", axiskeys |-> <<"x", "y", "c">>,
                  shape |-> <<2, 2, 1>>, drange |-> NoDrange] },
               { DefaultSigmas })

\* Input gets new metadata: setupOutputs runs
SuSetInput ==
    /\ \E m \in SuInputMetas :
          /\ m # suInput
          /\ SuAfterSetup("setupOutputs", m, suSigmas)
    /\ UNCHANGED suOthers

\* Sigmas gets a new value: setupOutputs runs
SuSetSigmas ==
    /\ \E v \in SuSigmaValues :
          /\ v # suSigmas
          /\ SuAfterSetup("setupOutputs", suInput, v)
    /\ UNCHANGED suOthers

\* setupOutputs runs again with the inputs unchanged
SuSetupAgain ==
    /\ SuAfterSetup("setupOutputs again", suInput, suSigmas)
    /\ UNCHANGED suOthers

\* A dirty notification arrives at the operator, whose last setupOutputs
\* succeeded; an unknown slot fails the call with its assertion
SuPropagateDirty ==
    /\ SmootherSetupOutputs(suInput, suSigmas).status = "ok"
    /\ \E slot \in {"Input", "Sigmas", "Output"} :
       \E roi \in RoisWithin(suInput.shape) :
          LET pd == SmootherPropagateDirty(slot, suInput, suStored, roi)
          IN  /\ suOp' = "propagateDirty"
              /\ suSlot' = slot
              /\ suRoi' = roi
              /\ suDirty' = pd.dirty
              /\ suStatus' = pd.status
              /\ UNCHANGED <<suInput, suSigmas, suStored, suOutput>>
    /\ UNCHANGED suOthers

SuNext == SuSetInput \/ SuSetSigmas \/ SuSetupAgain \/ SuPropagateDirty

\* The configuration of the operator and of the smoother inside it
TlSetupNext ==
    \/ TlSetChannel
    \/ TlSetInputImage
    \/ TlSetLowThreshold
    \/ TlSetHighThreshold
    \/ TlSetupAgain
    \/ SuSetupAgain

-----------------------------------------------------------------------------
(* OpMaskArray and a pass-through operator behind it (testMaskedArray.py) *)

MkRois == { r \in [start : 0..MkLen, stop : 0..MkLen] : r.start < r.stop }
MkNoRoi == [start |-> 0, stop |-> 0]

\* a[roi.toSlice()]
SliceOf(a, roi) == SubSeq(a, roi.start + 1, roi.stop)

\* numpy.ma.nomask, the mask numpy keeps when it shrinks a mask without a
\* masked element
NoMask == <<>>

\* numpy.ma.masked_array(data, mask=mask, shrink=shrink)
MaskedArray(data, mask, shrink) ==
    [ data |-> data,
      mask |-> IF shrink /\ (\A i \in 1..Len(mask) : ~mask[i]) THEN NoMask ELSE mask ]

\* OpMaskArray.execute, line 60: data = self.InputArray[key].wait()
MaskArrayRequestData(data, roi) == SliceOf(data, roi)

\* OpMaskArray.execute, line 61: mask = self.InputMask[key].wait()
MaskArrayRequestMask(mask, roi) == SliceOf(mask, roi)

\* A slip: the mask is left to shrink
MaskArrayExecute_Shrink(data, mask) ==
    MaskedArray(data, mask, TRUE)

\* OpMaskArray.execute from line 63 on, with the data and the mask obtained
\* before: what result holds after result[...] = data_masked
MaskArrayExecute(data, mask) ==
    MaskedArray(data, mask, FALSE)

\* OpArrayPiper.execute: the request on Input is written into result
ArrayPiperExecute(input) == input

\* operator.Output[roi].wait(), once the data of InputArray and the mask of
\* InputMask are there
MkReadOutput(via, data, mask) ==
    IF via = "OpArrayPiper"
    THEN ArrayPiperExecute(MaskArrayExecute(data, mask))
    ELSE MaskArrayExecute(data, mask)

\* output = expected_output.copy(); output[:] = 0; output[:] = numpy.ma.nomask
MkCleared ==
    [ data |-> [i \in 1..MkLen |-> 0],
      mask |-> [i \in 1..MkLen |-> FALSE],
      filled |-> {} ]

\* output[roi] = result: data and mask of result are stored over roi; a
\* result without mask array stores an unmasked element everywhere
StoreInto(out, roi, result) ==
    [ data |-> [i \in 1..MkLen |->
                  IF roi.start < i /\ i <= roi.stop
                  THEN result.data[i - roi.start] ELSE out.data[i]],
      mask |-> [i \in 1..MkLen |->
                  IF roi.start < i /\ i <= roi.stop
                  THEN (IF result.mask = NoMask THEN FALSE
                        ELSE result.mask[i - roi.start])
                  ELSE out.mask[i]],
      filled |-> out.filled \cup ((roi.start + 1)..roi.stop) ]

\* No read is in progress
NoMkRead == [roi |-> MkNoRoi, at |-> "none", data |-> <<>>, mask |-> <<>>]

\* No result
MkNoResult == [data |-> <<>>, mask |-> NoMask]

\* The arrays set on InputArray: neighbouring elements differ
MkDatas ==
    { [i \in 1..MkLen |-> (i + k) % (MkMaxValue + 1)] : k \in 0..MkMaxValue }

\* The arrays set on InputMask
MkMasks == [1..MkLen -> BOOLEAN]

\* InputArray.setValue(data); InputMask.setValue(mask), for the given inputs
MkInitWith(datas, masks, vias) ==
    /\ mkData \in datas
    /\ mkMask \in masks
    /\ mkVia \in vias
    /\ mkRoi = MkNoRoi
    /\ mkResult = MkNoResult
    /\ mkAssembled = MkCleared
    /\ mkPending = NoMkRead
    /\ mkStale = FALSE

MkInit ==
    MkInitWith(MkDatas, MkMasks, {"OpMaskArray", "OpArrayPiper"})

MkRest ==
    MkInitWith({[i \in 1..MkLen |-> 0]}, {[i \in 1..MkLen |-> FALSE]}, {"OpMaskArray"})

\* Output is read over a roi that was not read yet: execute requests the data
\* of InputArray, which is handed out as it is now, and waits (line 60)
MkReadChunk ==
    /\ mkPending = NoMkRead
    /\ \E roi \in MkRois :
          /\ ((roi.start + 1)..roi.stop) \cap mkAssembled.filled = {}
          /\ mkPending' = [roi |-> roi, at |-> "line 60",
                           data |-> MaskArrayRequestData(mkData, roi),
                           mask |-> <<>>]
    /\ UNCHANGED <<mkData, mkMask, mkVia, mkRoi, mkResult, mkAssembled, mkStale,
                   mkOthers>>

\* The wait of line 60 ends: execute requests the mask of InputMask, which is
\* handed out as it is now, and waits (line 61)
MkReadMask ==
    /\ mkPending.at = "line 60"
    /\ mkPending' = [mkPending EXCEPT !.at = "line 61",
                       !.mask = MaskArrayRequestMask(mkMask, mkPending.roi)]
    /\ UNCHANGED <<mkData, mkMask, mkVia, mkRoi, mkResult, mkAssembled, mkStale,
                   mkOthers>>

\* The wait of line 61 ends: execute builds the masked array (lines 63-68)
\* and returns; the reader stores the result into the output array
MkReadResult ==
    /\ mkPending.at = "line 61"
    /\ LET roi == mkPending.roi
           result == MkReadOutput(mkVia, mkPending.data, mkPending.mask)
       IN  /\ mkRoi' = roi
           /\ mkResult' = result
           /\ mkAssembled' = StoreInto(mkAssembled, roi, result)
    /\ mkPending' = NoMkRead
    /\ UNCHANGED <<mkData, mkMask, mkVia, mkStale, mkOthers>>

\* The state a setValue leaves beside the value: the reader prepares a new
\* output array for the new inputs; a read in progress goes on with what it
\* obtained
MkAfterSetValue ==
    /\ mkRoi' = MkNoRoi
    /\ mkResult' = MkNoResult
    /\ mkAssembled' = MkCleared
    /\ mkStale' = (mkPending # NoMkRead)
    /\ UNCHANGED <<mkVia, mkPending, mkOthers>>

\* InputArray.setValue(data), also while a read is in progress
MkSetInputArray ==
    /\ \E d \in MkDatas : mkData' = d
    /\ UNCHANGED mkMask
    /\ MkAfterSetValue

\* InputMask.setValue(mask), also while a read is in progress
MkSetInputMask ==
    /\ \E m \in MkMasks : mkMask' = m
    /\ UNCHANGED mkData
    /\ MkAfterSetValue

\* A new output array is prepared
MkClear ==
    /\ mkPending = NoMkRead
    /\ mkAssembled.filled # {}
    /\ mkRoi' = MkNoRoi
    /\ mkResult' = MkNoResult
    /\ mkAssembled' = MkCleared
    /\ mkStale' = FALSE
    /\ UNCHANGED <<mkData, mkMask, mkVia, mkPending, mkOthers>>

MkNext ==
    \/ MkReadChunk
    \/ MkReadMask
    \/ MkReadResult
    \/ MkSetInputArray
    \/ MkSetInputMask
    \/ MkClear

-----------------------------------------------------------------------------
(* OpSelectLabels.propagateDirty *)

\* A slip: notifications from BigLabels are dropped
SelectPropagateDirty_SmallOnly(slot, roi) ==
    IF slot = "SmallLabels"
    THEN [status |-> "ok", dirty |-> DirtyAll]
    ELSE IF slot = "BigLabels"
    THEN [status |-> "ok", dirty |-> DirtyNone]
    ELSE [status |-> "Unknown input slot", dirty |-> DirtyNone]

\* OpSelectLabels.propagateDirty(slot, subindex, roi)
SelectPropagateDirty(slot, roi) ==
    IF slot = "SmallLabels" \/ slot = "BigLabels"
    THEN [status |-> "ok", dirty |-> DirtyAll]
    ELSE [status |-> "Unknown input slot", dirty |-> DirtyNone]

\* The pixels of the one-dimensional Output a setDirty call marks
MarkedPixels(dirty) ==
    IF dirty.kind = "all" THEN 1..VolLen
    ELSE IF dirty.kind = "roi" THEN (dirty.roi.start + 1)..dirty.roi.stop
    ELSE {}

SdInit ==
    /\ sdSlot = "none"
    /\ sdRoi = [start |-> 0, stop |-> 0]
    /\ sdStatus = "ok"
    /\ sdDirty = DirtyNone
    /\ sdStale = {}

\* A dirty notification arrives from a slot, over a roi
SdPropagateDirty ==
    /\ \E slot \in {"SmallLabels", "BigLabels", "Output"} :
       \E roi \in SelRois :
          LET pd == SelectPropagateDirty(slot, roi)
          IN  /\ sdSlot' = slot
              /\ sdRoi' = roi
              /\ sdStatus' = pd.status
              /\ sdDirty' = pd.dirty
              /\ sdStale' = sdStale \cup MarkedPixels(pd.dirty)
    /\ UNCHANGED sdOthers

\* The consumer of Output reads a roi again
SdConsumerRead ==
    /\ \E roi \in SelRois :
          /\ ((roi.start + 1)..roi.stop) \cap sdStale # {}
          /\ sdStale' = sdStale \ ((roi.start + 1)..roi.stop)
    /\ UNCHANGED <<sdSlot, sdRoi, sdStatus, sdDirty, sdOthers>>

SdNext == SdPropagateDirty \/ SdConsumerRead

-----------------------------------------------------------------------------
(* Metadata of the primary output of OpThresholdTwoLevels *)

NoMeta == [dtype |-> "none", drange |-> NoDrange, channels |-> 0]

\* InputImage.meta: any element type, range of values and number of channels
MdInputMetas ==
    [dtype : SuDtypes, drange : Dranges, channels : 1..MaxChannels]

\* BigLabels.meta: the label image of one channel
MdBigLabelsMetas ==
    [dtype : {"uint32"}, drange : Dranges, channels : {1}]

\* OpSelectLabels.setupOutputs: Output.meta
SelectOutputMeta(bigLabelsMeta) ==
    [bigLabelsMeta EXCEPT !.dtype = "uint8",
                          !.drange = [set |-> TRUE, lo |-> 0, hi |-> 1]]

\* OpThresholdTwoLevels.setupOutputs: Output.meta
TwoLevelsOutputMeta(inputMeta) ==
    [inputMeta EXCEPT !.dtype = "uint32"]

\* OpSelectLabels.execute: the element type of what it writes to result
SelectProducedDtype == "uint8"

\* After __init__: no input is configured
MdRest ==
    /\ mdInput = NoMeta
    /\ mdBigLabels = NoMeta
    /\ mdSelect = NoMeta
    /\ mdOutput = NoMeta
    /\ mdProduced = "none"
    /\ mdOp = "constructed"

\* InputImage gets new metadata: the operators inside are configured, then
\* OpThresholdTwoLevels.setupOutputs runs. It happens at any time, also while
\* a read of Output waits for its inputs; the read goes on afterwards.
\* Output is connected to _opSelectLabels.Output (line 264), whose metadata
\* the framework propagates to it, and setupOutputs assigns its metadata too
\* (lines 319-321). Which of the two the slot declares once the configuration
\* has settled is decided by the slot code of the framework: either is a
\* possible outcome.
MdSetInputImage ==
    /\ \E m \in MdInputMetas : \E b \in MdBigLabelsMetas :
          /\ mdInput' = m
          /\ mdBigLabels' = b
          /\ mdSelect' = SelectOutputMeta(b)
          /\ mdOutput' \in { TwoLevelsOutputMeta(m), SelectOutputMeta(b) }
    /\ mdOp' = IF mdOp = "constructed" THEN "idle" ELSE mdOp
    /\ UNCHANGED <<mdProduced, mdOthers>>

\* Output is read: the request is served by _opSelectLabels.execute, which
\* asks for SmallLabels and waits
MdReadOutput ==
    /\ mdOp = "idle"
    /\ mdProduced' = "none"
    /\ mdOp' = "small labels"
    /\ UNCHANGED <<mdInput, mdBigLabels, mdSelect, mdOutput, mdOthers>>

\* SmallLabels has arrived: execute asks for BigLabels and waits
MdReadBigLabels ==
    /\ mdOp = "small labels"
    /\ mdOp' = "big labels"
    /\ UNCHANGED <<mdInput, mdBigLabels, mdSelect, mdOutput, mdProduced, mdOthers>>

\* BigLabels has arrived: execute writes result
MdReadResult ==
    /\ mdOp = "big labels"
    /\ mdProduced' = SelectProducedDtype
    /\ mdOp' = "execute"
    /\ UNCHANGED <<mdInput, mdBigLabels, mdSelect, mdOutput, mdOthers>>

\* The read returns
MdReturn ==
    /\ mdOp = "execute"
    /\ mdOp' = "idle"
    /\ UNCHANGED <<mdInput, mdBigLabels, mdSelect, mdOutput, mdProduced, mdOthers>>

MdNext ==
    MdSetInputImage \/ MdReadOutput \/ MdReadBigLabels \/ MdReadResult \/ MdReturn

-----------------------------------------------------------------------------
(* OpThresholdTwoLevels: a parameter changes *)

\* The parameter slots
ParamSlots ==
    { "Channel", "SmootherSigma", "LowThreshold", "HighThreshold",
      "MinSize", "MaxSize" }

\* The channel count of InputImage
PcNumChannels == MaxChannels

\* The values a parameter slot takes
ParamValues(p) ==
    CASE p = "Channel" -> ChannelValues
      [] p \in {"LowThreshold", "HighThreshold"} -> {0, ThreshDen}
      [] OTHER -> {1, 2}

ParamRecords ==
    [Channel : ParamValues("Channel"),
     SmootherSigma : ParamValues("SmootherSigma"),
     LowThreshold : ParamValues("LowThreshold"),
     HighThreshold : ParamValues("HighThreshold"),
     MinSize : ParamValues("MinSize"),
     MaxSize : ParamValues("MaxSize")]

\* The inner operators that read the Output of an inner operator
Consumers(op) ==
    { o \in {"_opChannelSlicer", "_opSmoother", "_opLowThresholder",
             "_opHighThresholder", "_opLowLabeler", "_opHighLabeler",
             "_opHighLabelSizeFilter", "_opSelectLabels"} \cup Caches
             \cup {"_opColorizeSmallLabels"} :
        op \in Upstream(o) }

\* The operators whose Output is dirty, all of it, once the Output of each
\* operator of ops is: every operator forwards the notification of its input
\* to its Output (propagateDirty), a cache marks its blocks dirty
RECURSIVE DirtyReach(_)
DirtyReach(ops) ==
    LET more == ops \cup UNION { Consumers(o) : o \in ops }
    IN  IF more = ops THEN ops ELSE DirtyReach(more)

\* The inner operators that mark their Output dirty when parameter p changes
\* its value: the operator the parameter slot is connected to (__init__), and
\* what the rerun of setupOutputs touches, unless it raises: the two
\* thresholders get new Functions, the smoother a new Input if the slice
\* changed
NotifiedByChange(p, old, new) ==
    (IF p = "SmootherSigma" THEN {"_opSmoother"} ELSE {})
    \cup (IF p \in {"MinSize", "MaxSize"} THEN {"_opHighLabelSizeFilter"} ELSE {})
    \cup (IF new.setup = "ok"
          THEN {"_opLowThresholder", "_opHighThresholder"}
               \cup (IF new.slice # old.slice THEN {"_opSmoother"} ELSE {})
          ELSE {})

\* OpThresholdTwoLevels.propagateDirty: what it marks dirty itself
TwoLevelsPropagateDirty(p) == {}

\* A read: the slot read; cached, when the cache answers from its clean data;
\* stale, when what the read obtains was computed, all or part of it, under
\* other parameter values than the current ones; during, when a parameter
\* changed while the read was running
NoRead == [slot |-> "none", cached |-> FALSE, stale |-> FALSE, during |-> FALSE]

PcConfOf(params, old) ==
    SetupOutputs(PcNumChannels, params.Channel, params.LowThreshold,
                 params.HighThreshold, old.slice, old.lowFn, old.highFn)

PcInitWith(paramSet) ==
    /\ pcParams \in paramSet
    /\ pcConf = PcConfOf(pcParams, [slice |-> -1, lowFn |-> -1, highFn |-> -1])
    /\ pcDirty = {}
    /\ pcCache = [state |-> "absent", stale |-> FALSE]
    /\ pcRead = NoRead
    /\ pcOp = "setupOutputs"

\* The operator configured with parameters under which setupOutputs succeeds
PcInit ==
    /\ PcInitWith(ParamRecords)
    /\ pcConf.setup = "ok"

\* A fixed configuration, for the behaviours of the other operators
PcRest ==
    PcInitWith({[Channel |-> 0, SmootherSigma |-> 1, LowThreshold |-> 0,
                 HighThreshold |-> ThreshDen, MinSize |-> 1, MaxSize |-> 2]})

\* A read of CachedOutput that the cache answers by asking the chain
PcMaterializing(read) == read.slot = "CachedOutput" /\ ~read.cached

\* A new value is set on a parameter slot: setupOutputs runs again, and the
\* operators notified mark their outputs dirty, down to the cache. It happens
\* at any time, also while a read waits for the chain: what the chain has
\* computed so far was computed under the old values. A cache that is notified
\* while it materializes drops the result and asks the chain again.
PcSetValue ==
    /\ \E p \in ParamSlots : \E v \in ParamValues(p) :
          LET params == [pcParams EXCEPT ![p] = v]
              conf == PcConfOf(params, pcConf)
              dirty == DirtyReach(NotifiedByChange(p, pcConf, conf)
                                  \cup TwoLevelsPropagateDirty(p))
          IN  /\ v # pcParams[p]
              /\ pcParams' = params
              /\ pcConf' = conf
              /\ pcDirty' = dirty
              /\ pcCache' =
                    IF pcCache.state = "absent" THEN pcCache
                    ELSE [state |-> IF "_opCache" \in dirty
                                    THEN "dirty" ELSE pcCache.state,
                          stale |-> TRUE]
              /\ pcRead' =
                    IF pcOp # "read" THEN NoRead
                    ELSE [pcRead EXCEPT
                            !.stale = ~(PcMaterializing(pcRead)
                                        /\ "_opCache" \in dirty),
                            !.during = TRUE]
    /\ pcOp' = IF pcOp = "read" THEN "read" ELSE "setValue"
    /\ UNCHANGED pcOthers

\* Output or CachedOutput is read over the whole volume: Output is computed
\* by the chain, CachedOutput is served by the cache, which asks the chain
\* unless its data is clean. The read then waits for its data.
PcReadSlot ==
    /\ pcOp \notin {"read", "done"}
    /\ \E slot \in {"Output", "CachedOutput"} :
          pcRead' = IF slot = "CachedOutput" /\ pcCache.state = "clean"
                    THEN [slot |-> slot, cached |-> TRUE,
                          stale |-> pcCache.stale, during |-> FALSE]
                    ELSE [slot |-> slot, cached |-> FALSE,
                          stale |-> FALSE, during |-> FALSE]
    /\ pcOp' = "read"
    /\ UNCHANGED <<pcParams, pcConf, pcDirty, pcCache, pcOthers>>

\* The data has arrived: the read is answered; a cache that asked the chain
\* stores the result and is clean
PcReadDone ==
    /\ pcOp = "read"
    /\ pcCache' = IF PcMaterializing(pcRead)
                  THEN [state |-> "clean", stale |-> pcRead.stale]
                  ELSE pcCache
    /\ pcOp' = "done"
    /\ UNCHANGED <<pcParams, pcConf, pcDirty, pcRead, pcOthers>>

\* The read returns
PcReturn ==
    /\ pcOp = "done"
    /\ pcOp' = "idle"
    /\ pcRead' = NoRead
    /\ UNCHANGED <<pcParams, pcConf, pcDirty, pcCache, pcOthers>>

PcNext == PcSetValue \/ PcReadSlot \/ PcReadDone \/ PcReturn

-----------------------------------------------------------------------------
(* OpTrackingBaseDataExport.run_export *)
(* A value is None or a string; a string has its text and is an object.    *)
(* Two strings of the same text are or are not the same object, depending  *)
(* on how they were obtained: obj tells whether the string is the object   *)
(* the class attribute PluginOnlyName holds.                               *)

NoneValue == [kind |-> "None", text |-> "", obj |-> "None"]

\* PluginOnlyName = 'Plugin'
PluginOnlyName == [kind |-> "str", text |-> "Plugin", obj |-> "PluginOnlyName"]

\* The names of export sources
ExportSourceNames == { "Plugin", "Object-Identities", "Tracking-Result" }

\* The values set on SelectedExportSource: None, the class attribute itself,
\* or a string obtained elsewhere, which is another object
ExportSourceValues ==
    { NoneValue, PluginOnlyName }
    \cup { [kind |-> "str", text |-> t, obj |-> "other"] : t \in ExportSourceNames }

\* The values set on SelectedPlugin
PluginValues ==
    { NoneValue } \cup { [kind |-> "str", text |-> t, obj |-> "other"] : t \in {"CSV", "H5"} }

\* a == b
ValueEquals(a, b) == a.kind = b.kind /\ a.text = b.text

\* a is not b
IsNot(a, b) == a.obj # b.obj

\* run_export: whether the base export runs
RunsBaseExport(source) == IsNot(source, PluginOnlyName)

\* After construction: both slots have their default, None
ExInit ==
    /\ exSource = NoneValue
    /\ exPlugin = NoneValue
    /\ exExports = 0
    /\ exOp = "constructed"
    /\ exRanBase = FALSE

\* SelectedExportSource.setValue(v)
ExSetSource ==
    /\ \E v \in ExportSourceValues :
          /\ v # exSource
          /\ exSource' = v
    /\ exOp' = "setValue"
    /\ exRanBase' = FALSE
    /\ UNCHANGED <<exPlugin, exExports, exOthers>>

\* SelectedPlugin.setValue(v)
ExSetPlugin ==
    /\ \E v \in PluginValues :
          /\ v # exPlugin
          /\ exPlugin' = v
    /\ exOp' = "setValue"
    /\ exRanBase' = FALSE
    /\ UNCHANGED <<exSource, exExports, exOthers>>

\* run_export()
ExRunExport ==
    /\ exExports < MaxExports
    /\ exOp' = "run_export"
    /\ exRanBase' = RunsBaseExport(exSource)
    /\ exExports' = IF RunsBaseExport(exSource) THEN exExports + 1 ELSE exExports
    /\ UNCHANGED <<exSource, exPlugin, exOthers>>

ExNext == ExSetSource \/ ExSetPlugin \/ ExRunExport

-----------------------------------------------------------------------------
(* StackFileSelectionWidget *)
(* A directory is described by what _getGlobString finds in it: the number  *)
(* of files of each type, the types in which one file's name ends where the *)
(* common prefix of the type's names ends (as a.png beside a.b.png), and    *)
(* for each HDF5/N5 type the number of internal paths its files have in     *)
(* common. File names hold no character that is special to glob. The files  *)
(* chosen in the file dialog of _selectFiles are described in the same way. *)

Modes == { "files", "directory", "pattern" }

Controls ==
    { "directoryChooseButton", "directoryEdit", "selectFilesChooseButton",
      "patternApplyButton", "patternEdit" }

\* Two of the image file types of vigra.impex.listExtensions()
ImgExts == { "png", "tif" }

\* An N5 and an HDF5 file type, in the order _getGlobString takes them: after
\* the image file types, n5Exts before h5exts
VolOrder == << "n5", "h5" >>

VolExts == { VolOrder[i] : i \in 1..Len(VolOrder) }

Exts == ImgExts \cup VolExts

NoCounts == [e \in Exts |-> 0]

NoPaths == [e \in VolExts |-> 0]

\* The sum of counts[e] over the types exts
RECURSIVE CountFiles(_, _)
CountFiles(counts, exts) ==
    IF exts = {} THEN 0
    ELSE LET e == CHOOSE x \in exts : TRUE
         IN  counts[e] + CountFiles(counts, exts \ {e})

\* The number of image files of a directory or of a choice of files
NumImages(d) == CountFiles(d.files, ImgExts)

\* The number of its HDF5/N5 files
NumVolumes(d) == CountFiles(d.files, VolExts)

\* The empty text of directoryEdit
NoDir == [name |-> "", files |-> NoCounts, short |-> {}, paths |-> NoPaths]

\* The numbers of files of each type in a directory or in a choice of files:
\* at most MaxDirFiles files in all
FileCounts ==
    { c : c \in { k \in [Exts -> 0..MaxDirFiles] :
                    CountFiles(k, Exts) <= MaxDirFiles } }

\* The numbers of common internal paths of the HDF5/N5 types that have files
PathCounts(counts) ==
    { p \in [VolExts -> 0..2] : \A e \in VolExts : counts[e] = 0 => p[e] = 0 }

\* The directories the user can choose
Directories ==
    UNION { { [name |-> "dir", files |-> c, short |-> s, paths |-> p] :
                s \in SUBSET { e \in Exts : c[e] >= 2 }, p \in PathCounts(c) } :
            c \in FileCounts }

\* The files the user can choose in the file dialog of _selectFiles: image
\* files, or HDF5 files; paths counts the internal paths HDF5 files have in
\* common and, for a single HDF5 file, the stacks in it
Selections ==
    UNION { { [name |-> "files", files |-> c, short |-> {}, paths |-> p] :
                p \in PathCounts(c) } :
            c \in { k \in FileCounts :
                      /\ CountFiles(k, Exts) > 0
                      /\ k["n5"] = 0
                      /\ CountFiles(k, ImgExts) = 0 \/ CountFiles(k, VolExts) = 0 } }

\* The empty text of patternEdit. A pattern is a list of glob strings, one
\* for each type of exts, all with the same kind of prefix: "commonprefix",
\* the longest common prefix of the names of the files of the type in dir;
\* "directory", dir + '/'; "file", the name of one HDF5 file, followed by a
\* glob for its internal paths
EmptyPattern == [dir |-> NoDir, exts |-> {}, prefix |-> "none"]

\* What the glob strings over the files of d are made of: the files' names.
\* The one internal path that ends the glob string of an HDF5/N5 type
\* selects one dataset in each file, whichever path it is.
NamesOf(d) == [d EXCEPT !.paths = NoPaths]

NoFiles == [img |-> 0, h5 |-> 0]

\* _getGlobString raises DetermineStackError
StackError == [raised |-> TRUE, glob |-> EmptyPattern]

\* The loop of _getGlobString over the HDF5/N5 types from the i-th of
\* VolOrder on, up to the first type at which it raises DetermineStackError
\* (files without a common internal path) or asks the user which of several
\* common internal paths to take
RECURSIVE VolumeLoop(_, _)
VolumeLoop(d, i) ==
    IF i > Len(VolOrder) THEN [what |-> "done", at |-> 0]
    ELSE IF d.files[VolOrder[i]] = 0 THEN VolumeLoop(d, i + 1)
    ELSE IF d.paths[VolOrder[i]] = 0 THEN [what |-> "raise", at |-> i]
    ELSE IF d.paths[VolOrder[i]] = 1 THEN VolumeLoop(d, i + 1)
    ELSE [what |-> "dialog", at |-> i]

\* _getGlobString after its loop: no file or a single file in all raises
\* DetermineStackError; otherwise the glob strings are joined, one for each
\* type that has files: the common prefix of its files + '*.' + type
JoinGlobStrings(d) ==
    IF CountFiles(d.files, Exts) <= 1
    THEN StackError
    ELSE [raised |-> FALSE,
          glob |-> [dir |-> NamesOf(d), exts |-> { e \in Exts : d.files[e] > 0 },
                    prefix |-> "commonprefix"]]

\* _getGlobString from the i-th HDF5/N5 type on, accept being the types for
\* which the user accepts H5N5VolumeSelectionDlg
RECURSIVE GetGlobStringFrom(_, _, _)
GetGlobStringFrom(d, i, accept) ==
    LET loop == VolumeLoop(d, i)
    IN  IF loop.what = "raise" THEN StackError
        ELSE IF loop.what = "done" THEN JoinGlobStrings(d)
        ELSE IF VolOrder[loop.at] \in accept
        THEN GetGlobStringFrom(d, loop.at + 1, accept)
        ELSE StackError

\* _getGlobString(directory): the glob strings joined, or DetermineStackError
GetGlobString(d, accept) == GetGlobStringFrom(d, 1, accept)

\* A directory without HDF5/N5 files
ImagesOnly(d) == NumVolumes(d) = 0

\* The patterns the user types into patternEdit: what _getGlobString makes
\* for a directory of image files, or dir/*.type for one type of image files
TypedPatterns ==
    UNION { (IF GetGlobString(d, {}).raised THEN {}
             ELSE { GetGlobString(d, {}).glob })
            \cup { [dir |-> d, exts |-> {e}, prefix |-> "directory"] : e \in ImgExts } :
            d \in { c \in Directories : ImagesOnly(c) } }

\* How many of the files of type e in d the glob string prefix + '*.' + e
\* matches. After the common prefix of the names a matching name goes on
\* with at least '.' + e: the one file of a type does not match, its name
\* being the prefix; nor does, among several, the file whose name ends where
\* the prefix ends.
GlobMatches(prefix, d, e) ==
    IF prefix # "commonprefix" THEN d.files[e]
    ELSE IF d.files[e] = 1 THEN 0
    ELSE IF e \in d.short THEN d.files[e] - 1
    ELSE d.files[e]

\* _applyPattern: the files the glob strings of patternEdit expand to
ExpandPattern(pattern) ==
    LET matches == [e \in Exts |->
                      IF e \in pattern.exts
                      THEN GlobMatches(pattern.prefix, pattern.dir, e) ELSE 0]
    IN  [img |-> CountFiles(matches, ImgExts),
         h5 |-> IF pattern.prefix = "file"
                THEN CountFiles(pattern.dir.paths, pattern.exts \cap VolExts)
                ELSE CountFiles(matches, VolExts)]

\* _selectFiles, for the files f chosen in the file dialog and the answer
\* to the dialog it shows, if any: whether a dialog is shown, whether the
\* warning is shown, whether patternEdit is set and _applyPattern called
\* (pattern), and whether selectedFiles is set (files)
SelectFilesOutcome(f, accepted) ==
    LET nothing == [dialog |-> FALSE, warned |-> FALSE, applied |-> FALSE,
                    updated |-> FALSE, pattern |-> EmptyPattern, files |-> NoFiles]
        chosen == [img |-> NumImages(f), h5 |-> NumVolumes(f)]
        paths == CountFiles(f.paths, VolExts)
        single == [dir |-> f, exts |-> { e \in VolExts : f.files[e] > 0 },
                   prefix |-> "file"]
    IN  IF NumVolumes(f) = 0
        THEN IF NumImages(f) = 1
             THEN [nothing EXCEPT !.warned = TRUE]
             ELSE [nothing EXCEPT !.updated = TRUE, !.files = chosen]
        ELSE IF NumVolumes(f) = 1
        THEN IF accepted
             THEN [nothing EXCEPT !.dialog = TRUE, !.applied = TRUE,
                                  !.updated = TRUE, !.pattern = single,
                                  !.files = ExpandPattern(single)]
             ELSE [nothing EXCEPT !.dialog = TRUE]
        ELSE IF paths = 0
        THEN [nothing EXCEPT !.warned = TRUE]
        ELSE IF paths = 1
        THEN [nothing EXCEPT !.updated = TRUE, !.files = chosen]
        ELSE IF accepted
        THEN [nothing EXCEPT !.dialog = TRUE, !.updated = TRUE, !.files = chosen]
        ELSE [nothing EXCEPT !.dialog = TRUE, !.warned = TRUE]

\* A slip in _configureGui: patternEdit stays enabled in directory mode
ConfigureGui_PatternEditEnabled(mode, directoryEdit, patternEdit) ==
    [enabled |->
        (IF mode = "directory" THEN {"directoryChooseButton", "directoryEdit"} ELSE {})
        \cup (IF mode = "files" THEN {"selectFilesChooseButton"} ELSE {})
        \cup (IF mode = "pattern" THEN {"patternApplyButton"} ELSE {})
        \cup (IF mode # "files" THEN {"patternEdit"} ELSE {}),
     directoryEdit |-> NoDir,
     patternEdit |-> IF mode # "pattern" THEN EmptyPattern ELSE patternEdit]

\* _configureGui(mode): the controls enabled and the two texts afterwards
ConfigureGui(mode, directoryEdit, patternEdit) ==
    [enabled |->
        (IF mode = "directory" THEN {"directoryChooseButton", "directoryEdit"} ELSE {})
        \cup (IF mode = "files" THEN {"selectFilesChooseButton"} ELSE {})
        \cup (IF mode = "pattern" THEN {"patternApplyButton", "patternEdit"} ELSE {}),
     directoryEdit |-> NoDir,
     patternEdit |-> IF mode # "pattern" THEN EmptyPattern ELSE patternEdit]

\* What a handler leaves in wgCall. outcome is "dialog" or "warning" while the
\* handler waits in a modal dialog or in the warning box; arg is the
\* directory or the files the handler was given; shown is the place in
\* VolOrder of the type _getGlobString shows its dialog for.
CallOf(op, mode, raised, warned, applied, outcome, arg) ==
    [op |-> op, mode |-> mode, raised |-> raised, warned |-> warned,
     applied |-> applied, outcome |-> outcome, arg |-> arg, shown |-> 0]

\* No handler waits in a modal dialog: the widget takes the user's input
WgNoModal == wgCall.outcome \notin {"dialog", "warning"}

\* __init__ with files = None: _initUi checks selectFilesRadioButton and
\* calls _configureGui("files"); the file list is empty
WgInit ==
    /\ wgChecked = {"files"}
    /\ wgEnabled = ConfigureGui("files", NoDir, EmptyPattern).enabled
    /\ wgDirectoryEdit = ConfigureGui("files", NoDir, EmptyPattern).directoryEdit
    /\ wgPatternEdit = ConfigureGui("files", NoDir, EmptyPattern).patternEdit
    /\ wgFiles = NoFiles
    /\ wgCall = CallOf("_initUi", "files", FALSE, FALSE, FALSE, "returned", NoDir)

\* A radio button is clicked: it becomes the one checked button of its group
\* and its clicked signal calls _configureGui with its mode
WgClickRadio ==
    /\ WgNoModal
    /\ \E mode \in Modes :
        LET gui == ConfigureGui(mode, wgDirectoryEdit, wgPatternEdit)
        IN  /\ wgChecked' = {mode}
            /\ wgEnabled' = gui.enabled
            /\ wgDirectoryEdit' = gui.directoryEdit
            /\ wgPatternEdit' = gui.patternEdit
            /\ wgCall' = CallOf("_configureGui", mode, FALSE, FALSE, FALSE,
                                "returned", NoDir)
            /\ UNCHANGED <<wgFiles, wgOthers>>

\* directoryChooseButton is clicked and the user cancels the dialog
WgChooseDirectoryCancelled ==
    /\ WgNoModal
    /\ "directoryChooseButton" \in wgEnabled
    /\ wgCall' = CallOf("_chooseDirectory", "cancelled", FALSE, FALSE, FALSE,
                        "returned", NoDir)
    /\ UNCHANGED <<wgChecked, wgEnabled, wgDirectoryEdit, wgPatternEdit, wgFiles,
                   wgOthers>>

\* _chooseDirectory when _getGlobString raised DetermineStackError: the
\* warning box is shown
ChooseDirectoryWarned(d) ==
    /\ wgCall' = CallOf("_chooseDirectory", "chosen", TRUE, TRUE, FALSE,
                        "warning", d)
    /\ UNCHANGED <<wgPatternEdit, wgFiles>>

\* _chooseDirectory once the loop of _getGlobString(d) is through: when
\* _getGlobString raises, the warning box is shown; otherwise patternEdit is
\* set and _applyPattern called
ChooseDirectoryGlobbed(d) ==
    LET g == JoinGlobStrings(d)
    IN  IF g.raised
        THEN ChooseDirectoryWarned(d)
        ELSE /\ wgPatternEdit' = g.glob
             /\ wgFiles' = ExpandPattern(g.glob)
             /\ wgCall' = CallOf("_chooseDirectory", "chosen", FALSE, FALSE, TRUE,
                                 "returned", d)

\* _chooseDirectory while _getGlobString(d) loops over the HDF5/N5 types,
\* from the i-th on and up to the next dialog, if there is one
ChooseDirectoryFrom(d, i) ==
    LET loop == VolumeLoop(d, i)
    IN  IF loop.what = "dialog"
        THEN /\ wgCall' = [CallOf("_chooseDirectory", "chosen", FALSE, FALSE,
                                  FALSE, "dialog", d) EXCEPT !.shown = loop.at]
             /\ UNCHANGED <<wgPatternEdit, wgFiles>>
        ELSE IF loop.what = "raise"
        THEN ChooseDirectoryWarned(d)
        ELSE ChooseDirectoryGlobbed(d)

\* directoryChooseButton is clicked and the user chooses a directory:
\* directoryEdit is set, then _getGlobString runs, up to the first dialog
\* that asks for an internal path if there is one
WgChooseDirectory ==
    /\ WgNoModal
    /\ "directoryChooseButton" \in wgEnabled
    /\ \E d \in Directories :
          /\ wgDirectoryEdit' = d
          /\ ChooseDirectoryFrom(d, 1)
    /\ UNCHANGED <<wgChecked, wgEnabled, wgOthers>>

\* _selectFiles after its dialog, if any: the warning box is shown, or
\* patternEdit is set and _applyPattern called, or selectedFiles is set
SelectFilesAnswered(f, accepted) ==
    LET o == SelectFilesOutcome(f, accepted)
    IN  /\ wgPatternEdit' = IF o.applied THEN o.pattern ELSE wgPatternEdit
        /\ wgFiles' = IF o.updated THEN o.files ELSE wgFiles
        /\ wgCall' = CallOf("_selectFiles", "chosen", FALSE, o.warned, o.applied,
                            IF o.warned THEN "warning" ELSE "returned", f)

\* selectFilesChooseButton is clicked and the user cancels the file dialog
WgSelectFilesCancelled ==
    /\ WgNoModal
    /\ "selectFilesChooseButton" \in wgEnabled
    /\ wgCall' = CallOf("_selectFiles", "cancelled", FALSE, FALSE, FALSE,
                        "returned", NoDir)
    /\ UNCHANGED <<wgChecked, wgEnabled, wgDirectoryEdit, wgPatternEdit, wgFiles,
                   wgOthers>>

\* selectFilesChooseButton is clicked and the user chooses files: _selectFiles
\* runs up to the dialog it shows, if there is one
WgSelectFiles ==
    /\ WgNoModal
    /\ "selectFilesChooseButton" \in wgEnabled
    /\ \E f \in Selections :
          IF SelectFilesOutcome(f, TRUE).dialog
          THEN /\ wgCall' = CallOf("_selectFiles", "chosen", FALSE, FALSE, FALSE,
                                   "dialog", f)
               /\ UNCHANGED <<wgPatternEdit, wgFiles>>
          ELSE SelectFilesAnswered(f, TRUE)
    /\ UNCHANGED <<wgChecked, wgEnabled, wgDirectoryEdit, wgOthers>>

\* The user answers the dialog a handler waits in, accepting it or not, and
\* the handler goes on: _getGlobString raises DetermineStackError when its
\* dialog was not accepted and goes on with the next type otherwise
WgDialogClosed ==
    /\ wgCall.outcome = "dialog"
    /\ \E accepted \in BOOLEAN :
          IF wgCall.op = "_chooseDirectory"
          THEN IF accepted
               THEN ChooseDirectoryFrom(wgCall.arg, wgCall.shown + 1)
               ELSE ChooseDirectoryWarned(wgCall.arg)
          ELSE SelectFilesAnswered(wgCall.arg, accepted)
    /\ UNCHANGED <<wgChecked, wgEnabled, wgDirectoryEdit, wgOthers>>

\* The user closes the warning box. _selectFiles returns. _chooseDirectory
\* goes on to test globstring, which was never bound: UnboundLocalError
WgWarningClosed ==
    /\ wgCall.outcome = "warning"
    /\ wgCall' = [wgCall EXCEPT !.outcome =
                      IF wgCall.op = "_chooseDirectory"
                      THEN "UnboundLocalError" ELSE "returned"]
    /\ UNCHANGED <<wgChecked, wgEnabled, wgDirectoryEdit, wgPatternEdit, wgFiles,
                   wgOthers>>

\* The user edits the text of patternEdit
WgTypePattern ==
    /\ WgNoModal
    /\ "patternEdit" \in wgEnabled
    /\ \E t \in TypedPatterns \cup {EmptyPattern} :
          /\ t # wgPatternEdit
          /\ wgPatternEdit' = t
    /\ wgCall' = CallOf("edit", "typed", FALSE, FALSE, FALSE, "returned", NoDir)
    /\ UNCHANGED <<wgChecked, wgEnabled, wgDirectoryEdit, wgFiles, wgOthers>>

\* patternApplyButton is clicked: _applyPattern
WgApplyPattern ==
    /\ WgNoModal
    /\ "patternApplyButton" \in wgEnabled
    /\ wgFiles' = ExpandPattern(wgPatternEdit)
    /\ wgCall' = CallOf("_applyPattern", "clicked", FALSE, FALSE, TRUE,
                        "returned", NoDir)
    /\ UNCHANGED <<wgChecked, wgEnabled, wgDirectoryEdit, wgPatternEdit, wgOthers>>

WgNext ==
    \/ WgClickRadio
    \/ WgChooseDirectoryCancelled
    \/ WgChooseDirectory
    \/ WgSelectFilesCancelled
    \/ WgSelectFiles
    \/ WgDialogClosed
    \/ WgWarningClosed
    \/ WgTypePattern
    \/ WgApplyPattern

-----------------------------------------------------------------------------
(* Specifications *)

\* The smoothing operator alone
InitSmoother == SmInit /\ SelInit /\ TlRest /\ CcInit /\ WrInit /\ SuRest /\ MkRest /\ SdInit /\ MdRest /\ PcRest /\ ExInit /\ WgInit
SpecSmoother == InitSmoother /\ [][SmNext]_vars

\* The region-selection operator alone
InitSelect == SmRest /\ SelInit /\ TlRest /\ CcInit /\ WrInit /\ SuRest /\ MkRest /\ SdInit /\ MdRest /\ PcRest /\ ExInit /\ WgInit
SpecSelect == InitSelect /\ [][SelNext]_vars

\* The configuration of the two-level threshold operator, and of the
\* smoother inside it: an input of any dtype and layout with its range of
\* values set, SmootherSigma at its default
InitSetup ==
    /\ SmRest /\ SelInit /\ TlSetupInit /\ CcInit /\ WrInit
    /\ SuInitWith({ m \in SuInputMetas : m.drange.set }, {DefaultSigmas})
    /\ MkRest /\ SdInit /\ MdRest /\ PcRest /\ ExInit /\ WgInit
SpecSetup == InitSetup /\ [][TlSetupNext]_vars

\* Reads of the composed pipeline
InitPipeline == SmRest /\ SelInit /\ TlPipelineInit /\ CcInit /\ WrInit /\ SuRest /\ MkRest /\ SdInit /\ MdRest /\ PcRest /\ ExInit /\ WgInit
SpecPipeline == InitPipeline /\ [][TlPipelineNext]_vars

\* The block cache under concurrent reads and dirty notifications
InitCache == SmRest /\ SelInit /\ TlRest /\ CcInit /\ WrInit /\ SuRest /\ MkRest /\ SdInit /\ MdRest /\ PcRest /\ ExInit /\ WgInit
SpecCache == InitCache /\ [][CcNext]_vars

\* Reads of the output slots of OpThresholdTwoLevels
InitWiring == SmRest /\ SelInit /\ TlRest /\ CcInit /\ WrInit /\ SuRest /\ MkRest /\ SdInit /\ MdRest /\ PcRest /\ ExInit /\ WgInit
SpecWiring == InitWiring /\ [][WrNext]_vars

\* The configuration of the smoothing operator and the notifications it gets
InitSmootherSetup == SmRest /\ SelInit /\ TlRest /\ CcInit /\ WrInit /\ SuInit /\ MkRest /\ SdInit /\ MdRest /\ PcRest /\ ExInit /\ WgInit
SpecSmootherSetup == InitSmootherSetup /\ [][SuNext]_vars

\* Reads of OpMaskArray, directly and through a pass-through operator
InitMaskArray ==
    SmRest /\ SelInit /\ TlRest /\ CcInit /\ WrInit /\ SuRest /\ MkInit /\ SdInit /\ MdRest /\ PcRest /\ ExInit /\ WgInit
SpecMaskArray == InitMaskArray /\ [][MkNext]_vars

\* Dirty notifications at the region-selection operator
InitSelectDirty ==
    SmRest /\ SelInit /\ TlRest /\ CcInit /\ WrInit /\ SuRest /\ MkRest /\ SdInit /\ MdRest /\ PcRest /\ ExInit /\ WgInit
SpecSelectDirty == InitSelectDirty /\ [][SdNext]_vars

\* The metadata of the primary output of OpThresholdTwoLevels
InitMetadata ==
    /\ SmRest /\ SelInit /\ TlRest /\ CcInit /\ WrInit /\ SuRest /\ MkRest /\ SdInit
    /\ MdRest /\ PcRest /\ ExInit /\ WgInit
SpecMetadata == InitMetadata /\ [][MdNext]_vars

\* Changes of the parameters of OpThresholdTwoLevels, and reads in between
InitParamChange ==
    /\ SmRest /\ SelInit /\ TlRest /\ CcInit /\ WrInit /\ SuRest /\ MkRest /\ SdInit
    /\ MdRest /\ PcInit /\ ExInit /\ WgInit
SpecParamChange == InitParamChange /\ [][PcNext]_vars

\* The export operator of the tracking applets
InitExport ==
    /\ SmRest /\ SelInit /\ TlRest /\ CcInit /\ WrInit /\ SuRest /\ MkRest /\ SdInit
    /\ MdRest /\ PcRest /\ ExInit /\ WgInit
SpecExport == InitExport /\ [][ExNext]_vars

\* The stack file selection dialog
InitWidget ==
    /\ SmRest /\ SelInit /\ TlRest /\ CcInit /\ WrInit /\ SuRest /\ MkRest /\ SdInit
    /\ MdRest /\ PcRest /\ ExInit /\ WgInit
SpecWidget == InitWidget /\ [][WgNext]_vars

\* Concurrent reads with every request scheduled: a request that can take a step
\* eventually takes one (the worker pool runs every request, and a producer
\* call returns)
SpecCacheLive ==
    /\ InitCache
    /\ [][CcConcurrentNext]_vars
    /\ \A r \in Readers : WF_ccVars(CcStep(r))

-----------------------------------------------------------------------------
(* Claims about OpAnisotropicGaussianSmoothing *)

\* The pixels of a volume of the given shape
PixelsOf(shape) ==
    { p \in [1..Len(shape) -> 0..(MaxExtent - 1)] :
        \A i \in 1..Len(shape) : p[i] < shape[i] }

\* The one-pixel ROI at p
PixelRoi(p) == [start |-> p, stop |-> [i \in 1..Len(p) |-> p[i] + 1]]

RoiContains(roi, p) ==
    \A i \in 1..Len(p) : roi.start[i] <= p[i] /\ p[i] < roi.stop[i]

RoisIntersect(a, b) ==
    \A i \in 1..Len(a.start) :
        Max(a.start[i], b.start[i]) < Min(a.stop[i], b.stop[i])

\* The region marked dirty contains pixel p
DirtyCovers(dirty, p) ==
    IF dirty.kind = "all" THEN TRUE
    ELSE IF dirty.kind = "none" THEN FALSE
    ELSE RoiContains(dirty.roi, p)

ChannelIsLast == smAxisKeys[Len(smAxisKeys)] = "c"

\* C3: dirty-propagation soundness. After Input is marked dirty over r, every
\* output pixel whose execute input ROI (its halo-extended, clipped region)
\* intersects r lies in the region marked dirty on Output.
C3_DirtySoundness ==
    smOp = "dirtyInput" =>
        \A p \in PixelsOf(smShape) :
            \/ DirtyCovers(smDirty, p)
            \/ ~RoisIntersect(
                  GetInputComputeRois(smAxisKeys, smShape, smSigmas, PixelRoi(p)).inputRoi,
                  smRoi)

\* A dirty notification whose halo reaches pixels outside r and is clipped at
\* a border of the volume
C3_Witness ==
    /\ smOp = "dirtyInput"
    /\ \E p \in PixelsOf(smShape) :
          /\ ~RoiContains(smRoi, p)
          /\ RoisIntersect(
                GetInputComputeRois(smAxisKeys, smShape, smSigmas, PixelRoi(p)).inputRoi,
                smRoi)
          /\ DirtyCovers(smDirty, p)
    /\ \E i \in 1..Len(smShape) :
          /\ smAxisKeys[i] # "c"
          /\ smDirty.roi.start[i] = 0
          /\ smRoi.start[i] - HaloRadius(SigmaGet(smSigmas, smAxisKeys[i]), Window) < 0

\* The extents of v on the spatial axes of keys, in their order
SpatialExtent(keys, v) ==
    LET upTo[i \in 0..Len(keys)] ==
            IF i = 0 THEN <<>>
            ELSE IF keys[i] = "c" THEN upTo[i - 1]
            ELSE Append(upTo[i - 1], v[i])
    IN  upTo[Len(keys)]

\* C4: for every ROI within the declared bounds of Output execute succeeds,
\* the result has the shape of the ROI on every axis, and the extent of the
\* compute ROI is the spatial extent of the ROI.
C4_ExecuteShape ==
    (smOp = "execute" /\ VecLeq(smRoi.stop, smShape)) =>
        /\ smResult.status = "ok"
        /\ smResult.shape = VecSub(smRoi.stop, smRoi.start)
        /\ VecSub(smComputeRoi.stop, smComputeRoi.start)
             = SpatialExtent(smAxisKeys, VecSub(smRoi.stop, smRoi.start))

\* The part of C4 that holds: when the channel is the last axis of the
\* input, as execute assumes at line 67, execute succeeds for every ROI
\* within the bounds, the result has the shape of the ROI, and the extent of
\* the compute ROI is the spatial extent of the ROI.
C4_ExecuteShapeChannelLast ==
    (smOp = "execute" /\ VecLeq(smRoi.stop, smShape) /\ ChannelIsLast) =>
        /\ smResult.status = "ok"
        /\ smResult.shape = VecSub(smRoi.stop, smRoi.start)
        /\ smResult.smoothed = DropLastAxis(VecSub(smRoi.stop, smRoi.start))
        /\ VecSub(smComputeRoi.stop, smComputeRoi.start)
             = SpatialExtent(smAxisKeys, VecSub(smRoi.stop, smRoi.start))

\* An execute at the border of the volume, where the halo is clipped
C4_Witness ==
    /\ smOp = "execute"
    /\ ChannelIsLast
    /\ smResult.status = "ok"
    /\ \E i \in 1..(Len(smShape) - 1) :
          /\ HaloRadius(SigmaGet(smSigmas, smAxisKeys[i]), Window) > 0
          /\ smRoi.start[i] = 0
          /\ smRoi.stop[i] < smShape[i]
          /\ smInputRoi.stop[i] > smRoi.stop[i]

\* C5: halo round trip. The offset returned with the extended region locates
\* the original ROI inside it: inputRoi.start + computeRoi[0] = r.start and
\* inputRoi.start + computeRoi[1] = r.stop on every spatial axis.
C5_HaloRoundTrip ==
    (smOp = "dirtyInput" \/ (smOp = "execute" /\ VecLeq(smRoi.stop, smShape))) =>
        LET ci == IndexOf(smAxisKeys, "c")
            inStart == RemoveAt(smInputRoi.start, ci)
        IN  /\ VecAdd(inStart, smComputeRoi.start) = RemoveAt(smRoi.start, ci)
            /\ VecAdd(inStart, smComputeRoi.stop) = RemoveAt(smRoi.stop, ci)

\* A ROI away from the origin whose extended region starts before it
C5_Witness ==
    /\ smOp = "execute"
    /\ VecLeq(smRoi.stop, smShape)
    /\ \E i \in 1..Len(smComputeRoi.start) :
          smComputeRoi.start[i] > 0 /\ RemoveAt(smInputRoi.start, IndexOf(smAxisKeys, "c"))[i] > 0

-----------------------------------------------------------------------------
(* Claims about OpSelectLabels *)

\* Pixel i belongs to a big component that holds a pixel with a nonzero
\* small label
InOverlappingComponent(big, small, i) ==
    /\ big[i] > 0
    /\ \E j \in 1..Len(big) : big[j] = big[i] /\ small[j] # 0

\* C1: the output of execute is 1 on every pixel of every BigLabels component
\* that contains a pixel with a nonzero SmallLabels value, and 0 elsewhere.
C1_WholeComponentSelected ==
    selPc = SelDonePc =>
        \A i \in 1..Len(selResult) :
            selResult[i] =
                IF InOverlappingComponent(selUpBig, selUpSmall, i) THEN 1 ELSE 0

\* C6: the BigLabels request exists only after the SmallLabels request was
\* completed and cleaned, the nonzero mask taken and the small labels
\* released; the two requests are never both outstanding and the small-label
\* array and the big-label array are never both held.
C6_FetchOrdering ==
    /\ ~(selSmallReq \in {"pending", "finished"} /\ selBigReq = "pending")
    /\ selBigReq # "none" =>
          /\ selSmallReq = "cleaned"
          /\ selSmallLabels = <<>>
          /\ selSmallNonZero = NonZeroMask(selUpSmall)
    /\ ~(selSmallLabels # <<>> /\ selBigLabels # <<>>)

\* The big labels are being fetched while only the mask of the small labels,
\* which had nonzero entries, is held
C6_Witness ==
    /\ selBigReq = "pending"
    /\ selSmallReq = "cleaned"
    /\ selSmallLabels = <<>>
    /\ \E i \in 1..Len(selSmallNonZero) : selSmallNonZero[i]
    /\ \E i \in 1..Len(selSmallNonZero) : ~selSmallNonZero[i]

-----------------------------------------------------------------------------
(* Claims about OpThresholdTwoLevels *)

\* C2: with low threshold <= high threshold the output foreground of the
\* pipeline is the union of the low-threshold regions that contain a pixel of
\* a size-surviving high-threshold component: the whole region, not only the
\* pixels of the core.
C2_WholeLowRegion ==
    (tlRead = "done" /\ tlLow <= tlHigh) =>
        \A i \in 1..Len(tlOutput) :
            tlOutput[i] =
                IF InOverlappingComponent(tlBigLabels, tlSmallLabels, i) THEN 1 ELSE 0

\* C7: after setupOutputs the smoother is connected to slice Channel when that
\* is a valid index, and to slice 0 whenever it is not; it is never connected
\* to a slice that does not exist.
C7_ChannelFallback ==
    /\ tlSetup = "ok"
    /\ tlSlice = (IF tlChannel < tlNumChannels THEN tlChannel ELSE 0)
    /\ SliceExists(tlSlice, tlNumChannels)

-----------------------------------------------------------------------------
(* Claims about the block cache *)

\* The second read of a roi is answered and no dirty notification came since
\* the first read of it began
RereadQuietlyDone ==
    /\ ccReader[Rereader].pc = "done"
    /\ ccReader[Rereader].pass = 2

\* C8, as the specification states it: when a roi was read twice with no
\* dirty notification in between, the two reads returned identical data, the
\* second read did not invoke the producer, and over the two reads the
\* producer was invoked exactly once for each block the roi intersects.
C8_CacheIdempotence ==
    RereadQuietlyDone =>
        /\ ccReader[Rereader].got = ccReader[Rereader].prev
        /\ ~ccReader[Rereader].invoked
        /\ \A b \in ccReader[Rereader].blocks : ccReader[Rereader].calls[b] = 1

\* C8, as it holds: when a roi was read twice with no dirty notification in
\* between, the two reads returned identical data, the second read did not
\* invoke the producer, and over the two reads the producer was invoked at
\* most once for each block the roi intersects: exactly once for a block the
\* first read had to materialize, and not at all for a block the first read
\* copied from the cache, where the write-through input or another read had
\* put it.
C8_IdempotenceAtMostOnce ==
    RereadQuietlyDone =>
        /\ ccReader[Rereader].got = ccReader[Rereader].prev
        /\ \A b \in ccReader[Rereader].blocks : ccReader[Rereader].got[b] # "none"
        /\ ~ccReader[Rereader].invoked
        /\ \A b \in ccReader[Rereader].blocks :
              /\ ccReader[Rereader].calls[b] <= 1
              /\ ccReader[Rereader].calls[b] = 0 <=> b \in ccReader[Rereader].taken
              /\ ccReader[Rereader].calls[b] <= ccProdCalls[b]

\* A roi over all blocks was read twice, with no dirty notification ever: the
\* first read materialized one block and copied another, which had been
\* written through and for which the producer was never invoked
C8_Witness ==
    /\ RereadQuietlyDone
    /\ ccReader[Rereader].blocks = Blocks
    /\ ccUpstream = 0
    /\ \A b \in Blocks : ccReader[Rereader].got[b] = "current"
    /\ \E b \in Blocks : ccReader[Rereader].calls[b] = 1
    /\ \E c \in Blocks :
          /\ ccReader[Rereader].calls[c] = 0
          /\ ccProdCalls[c] = 0

\* Block b and roi d have a pixel in common
BlockIntersects(b, d) ==
    \E px \in d.start..(d.stop - 1) :
        b * BlockSize <= px /\ px < (b + 1) * BlockSize

\* The cache holds no block as clean whose data the producer has replaced,
\* and a running producer call covers exactly the extent of its block
C9_State ==
    /\ \A b \in Blocks : ccState[b] = "clean" => ccData[b] = "current"
    /\ \A r \in Readers :
          ccReader[r].mat # NoMat =>
              /\ ccReader[r].mat.block \in ccReader[r].blocks
              /\ ccReader[r].mat.roi.start = ccReader[r].mat.block * BlockSize
              /\ ccReader[r].mat.roi.stop = (ccReader[r].mat.block + 1) * BlockSize

\* A dirty notification over some roi d makes exactly the blocks d intersects
\* dirty and leaves the state of every other block as it was
C9_DirtyStep ==
    ccUpstream' # ccUpstream =>
        \E d \in CacheRois :
            \A b \in Blocks :
                IF BlockIntersects(b, d)
                THEN /\ ccState'[b] = "dirty"
                     /\ ccData'[b] # "current"
                ELSE /\ ccState'[b] = ccState[b]
                     /\ ccData'[b] = ccData[b]

\* The producer is invoked only for blocks that are not clean, and a block
\* enters a result only as clean, current data
C9_ReadStep ==
    /\ \A b \in Blocks :
          ccProdCalls'[b] > ccProdCalls[b] => ccState[b] # "clean"
    /\ \A r \in Readers : \A b \in Blocks :
          (ccReader'[r].got[b] # ccReader[r].got[b] /\ ccReader'[r].got[b] # "none") =>
              /\ ccReader'[r].got[b] = "current"
              /\ ccState'[b] = "clean"
              /\ ccState[b] \in {"clean", "materializing"}

\* C9: a dirty notification over d makes exactly the blocks intersecting d
\* dirty and leaves the other blocks as they were; a read invokes the producer
\* for exactly the extent of a block, and for no block that is clean; a read
\* never returns the data of a dirty block, nor data the producer has
\* replaced.
C9_BlockInvalidation ==
    /\ []C9_State
    /\ [][C9_DirtyStep /\ C9_ReadStep]_vars

\* After a dirty notification a read runs the producer again for a block whose
\* stored data is outdated, while another block is still clean
C9_Witness ==
    /\ ccUpstream > 0
    /\ \E r \in Readers : \E b \in Blocks :
          /\ ccReader[r].mat.block = b
          /\ ccReader[r].mat.current
          /\ ccData[b] = "stale"
          /\ \E c \in Blocks \ {b} :
                /\ ccState[c] = "clean"
                /\ c \in ccReader[r].blocks

\* Reader r cannot take a step: it waits for a block another read materializes
Waiting(r) ==
    /\ ccReader[r].pc = "reading"
    /\ ~ENABLED CcStep(r)

\* In each generation of a block the producer is invoked at most once for it,
\* and at most one producer call for it is under way whose result will be kept
C10_AtMostOnce ==
    \A b \in Blocks :
        /\ ccProdCalls[b] <= 1
        /\ Cardinality({ r \in Readers :
                ccReader[r].mat.block = b /\ ccReader[r].mat.current }) <= 1

\* A read waits only for a block of its roi that another read, whose roi has
\* that block too, is materializing: reads over disjoint block sets never wait
\* on each other
C10_NonBlocking ==
    \A r \in Readers :
        Waiting(r) =>
            \E o \in Readers \ {r} :
                /\ ccReader[o].mat.block \in ccReader[r].blocks
                /\ ccReader[o].mat.block \in ccReader[o].blocks
                /\ ccReader[r].blocks \cap ccReader[o].blocks # {}

\* C10: under any interleaving of concurrent reads the producer is invoked at
\* most once per block and generation, a read waits only for a read that
\* shares a block with it, and every read is eventually answered: a read
\* under way ends only by being answered, and no read stays under way forever.
C10_Coalescing ==
    /\ [](C10_AtMostOnce /\ C10_NonBlocking)
    /\ [][\A r \in Readers :
            (ccReader[r].pc = "reading" /\ ccReader'[r].pc # "reading")
                => ccReader'[r].pc = "done"]_vars
    /\ \A r \in Readers : []<>(ccReader[r].pc # "reading")

\* Two reads want the same block: one of them runs the producer for it, the
\* other waits
C10_Witness ==
    \E r \in Readers : \E o \in Readers \ {r} :
        /\ ccReader[r].mat # NoMat
        /\ ccReader[r].mat.current
        /\ Waiting(o)
        /\ CurrentBlock(o) = ccReader[r].mat.block

-----------------------------------------------------------------------------
(* Claims about the wiring of OpThresholdTwoLevels *)

\* The primary output and the debug taps
Taps == { "Output", "Smoothed", "BigRegions", "SmallRegions", "FilteredSmallLabels" }

\* The operator that produces the data of a tap
ProducerOf(tap) ==
    CASE tap = "Output"              -> "_opSelectLabels"
      [] tap = "Smoothed"            -> "_opSmoother"
      [] tap = "BigRegions"          -> "_opLowThresholder"
      [] tap = "SmallRegions"        -> "_opHighThresholder"
      [] tap = "FilteredSmallLabels" -> "_opHighLabelSizeFilter"

\* The caches fed by the producer of a tap that took part in the last read
ServingCaches(tap) ==
    { c \in Caches \cap wrExecuted : Upstream(c) = {ProducerOf(tap)} }

\* C11: every read of the primary output or of a debug tap goes through a
\* block cache fed by the operator that produces the tap, and reading a tap
\* again, with no change of the input in between, does not execute that
\* operator.
C11_TapsCached ==
    \A tap \in Taps :
        /\ wrRead = tap => ServingCaches(tap) # {}
        /\ (wrRead = tap /\ wrPrev = tap) => ProducerOf(tap) \notin wrExecuted

\* C12: no read of an output slot reaches OpThresholdTwoLevels.execute, and a
\* read of the primary output is served by the cache around the selection
\* operator: the selection operator runs only when that cache requests it.
C12_OutputServedByCache ==
    /\ "OpThresholdTwoLevels" \notin wrExecuted
    /\ wrRead = "Output" =>
          /\ "_opCache" \in wrExecuted
          /\ Partner("Output").op = "_opCache"

-----------------------------------------------------------------------------
(* Claims about the configuration of OpAnisotropicGaussianSmoothing *)

\* The full extent of a volume on every axis
FullRoi(shape) == [start |-> [i \in 1..Len(shape) |-> 0], stop |-> shape]

\* The region of Output a setDirty call marked
DirtyExtent(dirty, shape) ==
    IF dirty.kind = "all" THEN FullRoi(shape)
    ELSE IF dirty.kind = "roi" THEN dirty.roi
    ELSE NoRoi

\* C13: a dirty notification from Sigmas marks the full extent of Output on
\* every axis, whatever roi comes with it, and so does every run of
\* setupOutputs, the runs that a change of Sigmas or of Input starts and the
\* reruns with the inputs unchanged.
C13_SigmasDirtyAll ==
    /\ (suOp = "propagateDirty" /\ suSlot = "Sigmas") =>
          DirtyExtent(suDirty, suOutput.shape) = FullRoi(suOutput.shape)
    /\ suOp \in {"setupOutputs", "setupOutputs again"} =>
          DirtyExtent(suDirty, suOutput.shape) = FullRoi(suOutput.shape)

\* The part of C13 that holds: a dirty notification from Sigmas marks the full
\* extent of Output whatever roi comes with it, and so does every run of
\* setupOutputs that passes the assertions of lines 43-44. A run that fails
\* them has stored the new sigmas at line 42 and marks nothing.
C13_SigmasDirtyAllWhenAccepted ==
    /\ (suOp = "propagateDirty" /\ suSlot = "Sigmas") =>
          DirtyExtent(suDirty, suOutput.shape) = FullRoi(suOutput.shape)
    /\ (suOp \in {"setupOutputs", "setupOutputs again"} /\ suStatus = "ok") =>
          DirtyExtent(suDirty, suOutput.shape) = FullRoi(suOutput.shape)
    /\ (suOp \in {"setupOutputs", "setupOutputs again"} /\ suStatus # "ok") =>
          /\ suStored = suSigmas
          /\ suDirty = DirtyNone

\* A notification from Sigmas came with a roi smaller than the volume
C13_Witness ==
    /\ suOp = "propagateDirty"
    /\ suSlot = "Sigmas"
    /\ suRoi # FullRoi(suInput.shape)
    /\ suDirty = DirtyAll

-----------------------------------------------------------------------------
(* Claims about the threshold stages of OpThresholdTwoLevels *)

\* The upper bound M that scales a threshold fraction: the upper bound of the
\* declared display range, or 1 when none is declared
ThresholdScale(drange) == IF drange.set THEN drange.hi ELSE 1

\* Pixel value v is strictly greater than the fraction t / ThreshDen of M
AboveThreshold(v, t, drange) == v * ThreshDen > t * ThresholdScale(drange)

\* The high threshold stage ran in this step, for the small labels
C14_HighStageRan == tlRead = "wait SmallLabels" /\ tlRead' = "wait BigLabels"

\* The low threshold stage ran in this step, for the big labels
C14_LowStageRan == tlRead = "wait BigLabels" /\ tlRead' = "done"

\* A threshold stage failed in this step
C14_StageFailed == tlRead # "AssertionError" /\ tlRead' = "AssertionError"

\* C14: with a display range (0, M) a pixel of a threshold stage is 1 exactly
\* when the smoothed value is strictly greater than f * M, f being the
\* fraction set when the stage runs; without a display range f is an
\* absolute value; a display range with a lower bound other than 0 fails the
\* assertion; and every call of the threshold functions, the first like the
\* later ones, uses the same effective threshold.
C14_ThresholdStages ==
    /\ [][ /\ C14_HighStageRan =>
                /\ ~(tlDrange.set /\ tlDrange.lo # 0)
                /\ \A i \in 1..Len(tlSmoothed') :
                      tlSmallRegions'[i] =
                        (IF AboveThreshold(tlSmoothed'[i], tlHigh, tlDrange) THEN 1 ELSE 0)
           /\ C14_LowStageRan =>
                /\ ~(tlDrange.set /\ tlDrange.lo # 0)
                /\ \A i \in 1..Len(tlSmoothedBig') :
                      tlBigRegions'[i] =
                        (IF AboveThreshold(tlSmoothedBig'[i], tlLow, tlDrange) THEN 1 ELSE 0)
           /\ C14_StageFailed => (tlDrange.set /\ tlDrange.lo # 0) ]_vars
    /\ [](tlLowFn = tlLow /\ tlHighFn = tlHigh)

\* The threshold functions were called for the second time, with a display
\* range that scales the fraction; a pixel equal to the scaled low threshold
\* gives 0 and a pixel above it gives 1
C14_Witness ==
    /\ tlRead = "done"
    /\ tlCalls = 2
    /\ tlDrange.set
    /\ tlDrange.hi > 1
    /\ tlLow > 0
    /\ \E i \in 1..Len(tlSmoothedBig) :
          /\ tlSmoothedBig[i] * ThreshDen = tlLow * tlDrange.hi
          /\ tlBigRegions[i] = 0
    /\ \E i \in 1..Len(tlSmoothedBig) : tlBigRegions[i] = 1

\* The assertion on the display range fails a read
C14_WitnessAssertion ==
    /\ tlRead = "AssertionError"
    /\ tlDrange.lo # 0

\* C15: after setupOutputs the element type of Output is float32 whatever the
\* element type of Input, and shape, axis tags and display range of Output
\* are those of Input.
C15_OutputMetadata ==
    /\ suOutput.dtype = "float32"
    /\ suOutput.shape = suInput.shape
    /\ suOutput.axiskeys = suInput.axiskeys
    /\ suOutput.drange = suInput.drange

\* setupOutputs ran again on integer input data with a display range
C15_Witness ==
    /\ suOp = "setupOutputs again"
    /\ suStatus = "ok"
    /\ suInput.dtype = "uint8"
    /\ suInput.drange.set
    /\ Len(suInput.shape) = 4
    /\ suOutput.dtype = "float32"

-----------------------------------------------------------------------------
(* Claims about OpMaskArray *)

\* A read of Output is answered in this step
C16_ReadAnswered == mkPending # NoMkRead /\ mkPending' = NoMkRead

\* C16: a read of Output over a roi yields the data of InputArray over the
\* roi, as the read obtained it, with a mask that has the shape of the roi
\* and is the mask of InputMask over the roi, as the read obtained it; the
\* two are the inputs' values over the roi when no input was set anew while
\* the read was under way; and an output array assembled from such reads of
\* disjoint chunks holds, on what was read, the values and the mask of one
\* read of the whole output. All of it also through the pass-through
\* operator.
C16_MaskedRead ==
    /\ [][C16_ReadAnswered =>
            LET roi == mkPending.roi
            IN  /\ Len(mkResult'.data) = roi.stop - roi.start
                /\ Len(mkResult'.mask) = roi.stop - roi.start
                /\ \A i \in 1..(roi.stop - roi.start) :
                      /\ mkResult'.data[i] = mkPending.data[i]
                      /\ mkResult'.mask[i] = mkPending.mask[i]
                      /\ ~mkStale => /\ mkResult'.data[i] = mkData[roi.start + i]
                                     /\ mkResult'.mask[i] = mkMask[roi.start + i]]_vars
    /\ [](~mkStale =>
            \A i \in mkAssembled.filled :
                /\ mkAssembled.data[i] = mkData[i]
                /\ mkAssembled.mask[i] = mkMask[i])

\* The output was read through the pass-through operator as [:2] and then
\* [2:], the second chunk without a masked element
C16_Witness ==
    /\ mkVia = "OpArrayPiper"
    /\ ~mkStale
    /\ mkAssembled.filled = 1..MkLen
    /\ mkRoi = [start |-> 2, stop |-> MkLen]
    /\ \E i \in 1..2 : mkMask[i]
    /\ \A i \in 3..MkLen : ~mkMask[i]

\* The spatial axes of the input
SpatialAxesOf(axiskeys) ==
    { axiskeys[i] : i \in 1..Len(axiskeys) } \cap {"x", "y", "z"}

\* C17: setupOutputs accepts the value on Sigmas exactly when it is a
\* per-axis mapping with a value for each spatial axis of the input, and
\* rejects every other value with a failed assertion; a mapping with x and y
\* only is accepted for a 2-D input.
C17_SigmasValidation ==
    suOp \in {"setupOutputs", "setupOutputs again"} =>
        (suStatus = "ok" <=>
            (suSigmas.isDict /\ SpatialAxesOf(suInput.axiskeys) \subseteq suSigmas.keys))

-----------------------------------------------------------------------------
(* Claims about OpSelectLabels.propagateDirty *)

\* C18: a dirty notification from SmallLabels or BigLabels over a roi marks a
\* region of Output that contains the roi; a notification from any other
\* slot fails the assertion and marks nothing.
C18_SelectDirtySoundness ==
    /\ sdSlot \in {"SmallLabels", "BigLabels"} =>
          /\ sdStatus = "ok"
          /\ ((sdRoi.start + 1)..sdRoi.stop) \subseteq MarkedPixels(sdDirty)
    /\ sdSlot \notin {"none", "SmallLabels", "BigLabels"} =>
          /\ sdStatus # "ok"
          /\ MarkedPixels(sdDirty) = {}

\* BigLabels changed over one pixel and all of Output is stale at the consumer
C18_Witness ==
    /\ sdSlot = "BigLabels"
    /\ sdRoi.stop - sdRoi.start = 1
    /\ sdStale = 1..VolLen

\* ---------------------------------------------------------------------
\* Claims about repeated configuration
\* ---------------------------------------------------------------------

\* What OpThresholdTwoLevels.setupOutputs configures
TlConfigured == <<tlSlice, tlSetup, tlLowFn, tlHighFn>>

\* What OpAnisotropicGaussianSmoothing.setupOutputs configures
SuConfigured == <<suOutput, suStored, suStatus>>

\* C19: calling setupOutputs again with unchanged inputs leaves every
\* configured field as it was: the channel slice the smoother reads, the
\* bound threshold functions and the outcome of the two-level operator; the
\* output metadata, the stored sigmas and the outcome of the smoother.  A
\* call that succeeded the first time does not fail the second time.
C19_SetupIdempotent ==
    [][ /\ (tlOp' = "setupOutputs again" => TlConfigured' = TlConfigured)
        /\ (suOp' = "setupOutputs again" => SuConfigured' = SuConfigured) ]_vars

\* Both operators were configured again after a successful configuration
\* with thresholds bound
C19_Witness ==
    /\ tlOp = "setupOutputs again"
    /\ tlSetup = "ok"
    /\ tlLowFn > 0
    /\ tlHighFn > 0
    /\ suOp = "setupOutputs again"
    /\ suStatus = "ok"

\* ---------------------------------------------------------------------
\* Claims about the input ROI of the smoother
\* ---------------------------------------------------------------------

\* _getInputComputeRois ran in this step for a ROI within the bounds of the
\* input: a dirty notification of Input was handled, or an execute passed its
\* assertion and requested its input
C20_RoisComputed ==
    \/ smOp' = "dirtyInput"
    \/ smOp = "idle" /\ smOp' = "wait"

\* The ROIs last computed are those of smRoi under the sigmas held
C20_RoisInBounds ==
    LET ci == IndexOf(smAxisKeys, "c")
        extent == RemoveAt(VecSub(smInputRoi.stop, smInputRoi.start), ci)
    IN  /\ Len(smInputRoi.start) = Len(smShape)
        /\ Len(smInputRoi.stop) = Len(smShape)
        /\ \A i \in 1..Len(smShape) :
              /\ 0 <= smInputRoi.start[i]
              /\ smInputRoi.start[i] <= smInputRoi.stop[i]
              /\ smInputRoi.stop[i] <= smShape[i]
              /\ IF i = ci
                 THEN smInputRoi.start[i] = 0 /\ smInputRoi.stop[i] = 1
                 ELSE LET radius == HaloRadius(SigmaGet(smSigmas, smAxisKeys[i]), Window)
                      IN  /\ smInputRoi.start[i] <= smRoi.start[i]
                          /\ smRoi.stop[i] <= smInputRoi.stop[i]
                          /\ smRoi.start[i] - smInputRoi.start[i] <= radius
                          /\ smInputRoi.stop[i] - smRoi.stop[i] <= radius
        /\ Len(smComputeRoi.start) = Len(extent)
        /\ Len(smComputeRoi.stop) = Len(extent)
        /\ \A j \in 1..Len(extent) :
              /\ 0 <= smComputeRoi.start[j]
              /\ smComputeRoi.start[j] <= smComputeRoi.stop[j]
              /\ smComputeRoi.stop[j] <= extent[j]

\* C20: for every ROI r within the bounds, the input ROI lies inside the
\* input's shape with start <= stop on every axis, contains r on every
\* spatial axis and exceeds it by at most the halo radius on each side, is
\* exactly [0, 1) on the channel axis, and the compute ROI lies within the
\* extent of the input ROI.
C20_InputRoiInvariant ==
    [][C20_RoisComputed => C20_RoisInBounds']_vars

\* An input ROI that carries the whole halo on one side of a spatial axis
\* and a halo cut short by the border of the input on the other side
C20_Witness ==
    /\ smOp = "dirtyInput"
    /\ \E i \in 1..Len(smShape) :
          LET radius == HaloRadius(SigmaGet(smSigmas, smAxisKeys[i]), Window)
          IN  /\ smAxisKeys[i] # "c"
              /\ radius > 0
              /\ smRoi.start[i] - smInputRoi.start[i] = radius
              /\ smInputRoi.stop[i] = smShape[i]
              /\ smInputRoi.stop[i] - smRoi.stop[i] < radius

\* ---------------------------------------------------------------------
\* Claims about requests beyond the input of the smoother
\* ---------------------------------------------------------------------

\* execute was called with a roi whose stop exceeds the input's shape
C21_OutOfBounds ==
    /\ smOp = "execute"
    /\ ~VecLeq(smRoi.stop, smShape)

\* The assertion failed before anything else ran: no input ROI was computed
\* or requested, and nothing was written to the result
C21_Rejected ==
    /\ smResult.status = "roi too large"
    /\ smInputRoi = NoRoi
    /\ smComputeRoi = NoRoi
    /\ smPending = NoPending
    /\ smResult.shape = <<>>
    /\ smResult.smoothed = <<>>

\* C21: an execute whose roi reaches beyond the input's shape on any axis
\* fails with the assertion before any upstream request and without writing
\* to the result; the roi is not clipped, and the call is not run again: the
\* failed call returns.
C21_OutOfBoundsRejected ==
    /\ [](C21_OutOfBounds => C21_Rejected)
    /\ [][C21_OutOfBounds => (smOp' = "idle" /\ smResult' = NoResult)]_vars

\* A rejected roi that reaches past the input on an axis with a halo, where
\* clipping would have produced an input ROI
C21_Witness ==
    /\ C21_OutOfBounds
    /\ smResult.status = "roi too large"
    /\ \E i \in 1..Len(smShape) :
          /\ smAxisKeys[i] # "c"
          /\ smRoi.stop[i] > smShape[i]
          /\ HaloRadius(SigmaGet(smSigmas, smAxisKeys[i]), Window) > 0

\* ---------------------------------------------------------------------
\* Claims about the metadata of the primary output
\* ---------------------------------------------------------------------

\* OpThresholdTwoLevels has been configured
MdConfigured == mdOp # "constructed"

\* C22: after configuration the element type and the range of values that
\* OpThresholdTwoLevels.Output declares are those that OpSelectLabels.Output
\* declares, the arrays read from Output have the declared element type, and
\* the declared element type does not depend on the input's. It holds if the
\* connected slot ends with its producer's metadata and fails if it ends
\* with the metadata setupOutputs assigned.
C22_OutputMetadataConsistent ==
    MdConfigured =>
        /\ mdOutput.dtype = mdSelect.dtype
        /\ mdOutput.drange = mdSelect.drange
        /\ (mdOp = "execute" => mdProduced = mdOutput.dtype)
        /\ mdOutput.dtype \in { TwoLevelsOutputMeta(NoMeta).dtype,
                                SelectOutputMeta(NoMeta).dtype }

\* Under either outcome the declared element type is an unsigned integer
\* type that the code fixes, whatever the element type of the input; the
\* arrays produced are uint8
C22_FixedDtype ==
    /\ MdConfigured => mdOutput.dtype \in {"uint32", "uint8"}
    /\ mdOp = "execute" => mdProduced = "uint8"

\* ---------------------------------------------------------------------
\* Claims about parameter changes of OpThresholdTwoLevels
\* ---------------------------------------------------------------------

\* The step sets a new value on a parameter slot
C23_ParamChanges == pcParams' # pcParams

\* The whole primary output and its cache are dirty after the step
C23_AllDirtyAfter ==
    /\ "_opSelectLabels" \in pcDirty'
    /\ "_opCache" \in pcDirty'
    /\ pcCache'.state # "clean"

\* A read that began after the last change of a parameter returns data
\* computed under the current parameter values
C23_ReadIsCurrent ==
    (pcOp = "done" /\ ~pcRead.during) => ~pcRead.stale

\* C23: after a change of any parameter the whole primary output and its
\* cache are marked dirty before the next read, although
\* OpThresholdTwoLevels.propagateDirty marks nothing itself, and no read after
\* the change returns cached data computed under the old value.
C23_ParamChangeInvalidates ==
    /\ [][C23_ParamChanges => C23_AllDirtyAfter]_vars
    /\ []C23_ReadIsCurrent

\* The same, for the changes under which setupOutputs succeeds: it holds
C23_InvalidatesWhenSetupSucceeds ==
    /\ [][(C23_ParamChanges /\ pcConf'.setup = "ok") => C23_AllDirtyAfter]_vars
    /\ [](pcConf.setup = "ok" => C23_ReadIsCurrent)

\* ---------------------------------------------------------------------
\* Claims about OpTrackingBaseDataExport
\* ---------------------------------------------------------------------

\* The value of SelectedExportSource is the string 'Plugin'
C24_SourceIsPlugin == ValueEquals(exSource, PluginOnlyName)

\* C24: run_export runs the base export if and only if the value of
\* SelectedExportSource differs from 'Plugin', however that string was
\* obtained; with 'Plugin' it runs no base export and changes no state.
C24_ExportIffNotPlugin ==
    /\ [](exOp = "run_export" => (exRanBase <=> ~C24_SourceIsPlugin))
    /\ [][C24_SourceIsPlugin => exExports' = exExports]_vars

\* The parts of C24 that hold: with the default None and with any other
\* name the base export runs, and with the class attribute itself it does not
C24_DefaultAndConstant ==
    exOp = "run_export" =>
        /\ (~C24_SourceIsPlugin => exRanBase)
        /\ (exSource = PluginOnlyName => ~exRanBase)

\* ---------------------------------------------------------------------
\* Claims about StackFileSelectionWidget
\* ---------------------------------------------------------------------

\* The step is one of a _chooseDirectory in which _getGlobString raised
\* DetermineStackError: the one that shows the warning, or the one after the
\* warning is closed
C25_StackErrorRaised ==
    /\ wgCall'.op = "_chooseDirectory"
    /\ wgCall'.raised

\* The warning was shown, nothing was applied, the pattern and the file list
\* are as before
C25_WarnedAndUntouched ==
    /\ wgCall'.warned
    /\ ~wgCall'.applied
    /\ wgPatternEdit' = wgPatternEdit
    /\ wgFiles' = wgFiles

\* C25: when the chosen directory yields no stack, _chooseDirectory shows the
\* "Invalid selection" warning and returns normally: the pattern text and the
\* selected files are unchanged, _applyPattern is not called, and no
\* exception escapes the handler.
C25_ChooseDirectoryErrorPath ==
    [][C25_StackErrorRaised =>
          (C25_WarnedAndUntouched
              /\ wgCall'.outcome \in {"warning", "returned"})]_vars

\* The parts of C25 that hold: the warning is shown and nothing is touched;
\* and _getGlobString raises for a directory without image files, with one
\* image file, or with HDF5/N5 files without a common internal path
C25_WarnedUntouched ==
    [][C25_StackErrorRaised => C25_WarnedAndUntouched]_vars

\* C26: after construction and after any sequence of clicks on the radio
\* buttons exactly one mode is checked and exactly its controls are enabled;
\* every call of _configureGui clears directoryEdit, and clears patternEdit
\* when the mode is not pattern; the first mode is files.
C26_SelectionModes ==
    /\ [](\E mode \in Modes :
            /\ wgChecked = {mode}
            /\ ("directoryChooseButton" \in wgEnabled <=> mode = "directory")
            /\ ("directoryEdit" \in wgEnabled <=> mode = "directory")
            /\ ("selectFilesChooseButton" \in wgEnabled <=> mode = "files")
            /\ ("patternApplyButton" \in wgEnabled <=> mode = "pattern")
            /\ ("patternEdit" \in wgEnabled <=> mode = "pattern"))
    /\ [][wgCall'.op = "_configureGui" =>
            /\ wgDirectoryEdit' = NoDir
            /\ (wgCall'.mode # "pattern" => wgPatternEdit' = EmptyPattern)]_vars
    /\ (wgChecked = {"files"} /\ wgCall.op = "_initUi")

\* The mode was switched away from directory mode after a directory had been
\* chosen and its pattern applied: both texts were cleared
C26_Witness ==
    /\ wgCall.op = "_configureGui"
    /\ wgCall.mode = "files"
    /\ wgChecked = {"files"}
    /\ wgFiles # NoFiles
    /\ wgDirectoryEdit = NoDir
    /\ wgPatternEdit = EmptyPattern

=============================================================================
